---- MODULE Spec2Model ----
(***************************************************************************)
(* Verification model of the guardian supply-chain risk engine.            *)
(*                                                                         *)
(* Part I   AdvancedSimulationEngine (backend/core/simulation_engine.py):  *)
(*          run_simulation, _execute_simulation_step,                      *)
(*          simulate_mitigation_effectiveness, _apply_mitigations.         *)
(* Part II  the path-enumeration simulation tool and the mitigation        *)
(*          evaluators built on it (v1/agents/simulation/agent.py,         *)
(*          agents-v2/agents/mitigation/agent.py,                          *)
(*          agents-v1/agents/mitigation/agent.py).                         *)
(* Part III the class-based MitigationAgent / SimulationAgent              *)
(*          (agents/mitigation/agent.py, agents/simulation/agent.py) and   *)
(*          the orchestrator over them (agents-v0/orchestrator/agent.py).  *)
(* Part IV  SupplyChainGraph building, AdvancedRiskCalculator and          *)
(*          calculate_mitigation_impact (backend/core/graph_engine.py,     *)
(*          risk_calculator.py, mitigation_engine.py).                     *)
(* Part V   a concurrent run_simulation call, the orchestrator of v1 and   *)
(*          agents-v2, simulate_cascade_failure and BatchProcessor         *)
(*          (backend/core/performance.py).                                 *)
(*                                                                         *)
(* Numbers that are floats in the program are kept exact: a probability or *)
(* a ratio is a record [n, d] standing for n/d, a delay is an integer      *)
(* number of 1/10000 ms, a random draw is an integer number of tenths.     *)
(***************************************************************************)
EXTENDS Integers, Sequences, FiniteSets, TLC

(***************************************************************************)
(* Bounds of the model.                                                    *)
(***************************************************************************)
NumNodes == 3      \* node ids 1..NumNodes
MaxEdges == 3      \* input graphs have at most this many edges (or are complete)
MaxInit == 2       \* length of the initial_compromised list
StreamLen == 2     \* period of the seeded random stream
MaxRuns == 2       \* direct run_simulation calls on one engine
MaxActions == 1    \* length of the mitigation_actions list
ToolNodes == 4     \* node ids 1..ToolNodes of the graphs given to the agents
ToolEdges == 4     \* those graphs have at most this many edges (or are complete)
MaxBaselineDepth == 3  \* max_depth of the baseline simulation
AgentNodes == 3    \* node ids 1..AgentNodes of the graph_data of the pipeline
MaxAgentDepth == 2 \* max_depth of the pipeline's SimulationInput
MaxPathCap == 3     \* max_paths of a direct enumerate_paths_tool call
MaxBuildCalls == 1  \* add_node / add_edge calls made on a built graph
MaxConcurrentReads == 1   \* graph reads of the concurrent run_simulation call
MaxTargets == 2           \* length of mitigation_targets
CascadeNodes == 12         \* nodes of the graphs given to simulate_cascade_failure
MaxCascadeInit == 2        \* length of its initial_compromised list
MaxBatchItems == 3         \* items of a batch that has no processor
MaxFlushes == 2            \* force_flush calls and timer runs
LongChainNodes == 11      \* nodes of the chain graph given to simulate_propagation
MaxPipeDepth == 2         \* max_depth of the OrchestratorInput of v1 / agents-v2
MaxPipeItems == 2         \* items of a list an agent of the v1 pipeline returns
MaxConcurrentInit == 1    \* length of initial_compromised when two threads call

(***************************************************************************)
(* Program constants of AdvancedSimulationEngine.__init__.                 *)
(***************************************************************************)
base_propagation_delay == 300
max_simulation_steps == 20
max_simulation_time == 10000

(***************************************************************************)
(* Program constants of the agents.                                        *)
(***************************************************************************)
max_paths_limit == 10000      \* simulate_propagation
max_waves == 10            \* graph_engine.py line 295
batch_size == 2            \* the batch_size the BatchProcessor is constructed with
max_mitigations == 50         \* evaluate_mitigations

NodeIds == 1..NumNodes
Ghost == 0                       \* a node id that is in no graph

(***************************************************************************)
(* Generic helpers.                                                        *)
(***************************************************************************)
Range(s) == {s[i] : i \in DOMAIN s}

Min2(a, b) == IF a <= b THEN a ELSE b

Max2(a, b) == IF a >= b THEN a ELSE b

RECURSIVE SeqOfSet(_)
\* The elements of a finite set of integers in ascending order.
SeqOfSet(S) ==
    IF S = {} THEN << >>
    ELSE LET m == CHOOSE x \in S : \A y \in S : x <= y
         IN  <<m>> \o SeqOfSet(S \ {m})

\* All duplicate-free sequences enumerating the set S (the orders in which a
\* Python set may be iterated).
Orders(S) ==
    {o \in [1..Cardinality(S) -> S] : \A i, j \in DOMAIN o : o[i] = o[j] => i = j}

(***************************************************************************)
(* Part I.  The supply chain graph held by the engine (self.graph).        *)
(***************************************************************************)
VARIABLES
    gnodes,        \* self.graph.graph.nodes()
    gedges,        \* self.graph.graph.edges(): set of <<source, target>>
    nx_risk,       \* 'risk_score' attribute of the networkx nodes, in 1/10000
    nf_crit,       \* node_features[n].criticality_score, 0..100
    stream,        \* the seeded random stream (draws in tenths), periodic
    rpos,          \* position of the next draw in the stream
    initial,       \* the initial_compromised list passed to the engine
    pc,            \* position inside run_simulation
    sim,           \* simulation_state
    order,         \* what is left of list(simulation_state['compromised'])
    loc,           \* locals of _execute_simulation_step
    step_result,   \* the SimulationStep returned by the last step
    iterations,    \* number of passes through the while loop of this run
    results,       \* SimulationResult objects returned so far
    mpc,           \* position inside simulate_mitigation_effectiveness
    mit,           \* its frame: actions, baseline result, graph before the call
    effectiveness  \* its return value

engineVars == <<gnodes, gedges, nx_risk, nf_crit, stream, rpos, initial, pc, sim,
                order, loc, step_result, iterations, results, mpc, mit,
                effectiveness>>

(* Part II: simulate_propagation and the mitigation evaluators. *)
VARIABLES
    tin,          \* the inputs: graph_metadata, vendor_id, max_depth, version
    tpc,          \* position in the pipeline
    baseline,     \* the baseline output of simulate_propagation
    cands,        \* candidates still to evaluate (top_nodes, then top_edges)
    evals,        \* one entry per candidate evaluated so far
    mitigations,  \* the mitigations list of evaluate_mitigations
    toutput       \* what evaluate_mitigations / a direct evaluator call returned

toolVars == <<tin, tpc, baseline, cands, evals, mitigations, toutput>>

(* Part III: SimulationAgent and MitigationAgent of src/agents. *)
VARIABLES
    ain,          \* the inputs: graph_data, vendor_id, max_depth
    apc,          \* position in the pipeline
    simout,       \* the output of SimulationAgent.run
    mrun,         \* the locals of MitigationAgent.run
    aoutput,      \* what MitigationAgent.run returned, or that it raised
    orch          \* the locals of OrchestratorAgent.run and what it returned

agentVars == <<ain, apc, simout, mrun, aoutput, orch>>

(* Part IV: SupplyChainGraph building, AdvancedRiskCalculator and the engine's
   propagation parameters with a predictor.  The graph is the engine's:
   gnodes, gedges, nx_risk, nf_crit. *)
VARIABLES
    nfeat,        \* the keys of SupplyChainGraph.node_features
    efeat,        \* the keys of SupplyChainGraph.edge_features
    rpc,          \* "ready" while the graph may be built on, "done" after an analysis
    rcalls,       \* number of add_node / add_edge calls made
    rcall         \* the last call: its operation, argument, the graph before, its result

riskVars == <<nfeat, efeat, rpc, rcalls, rcall>>

\* The engine's variables other than the graph.
engineRunVars == <<stream, rpos, initial, pc, sim, order, loc, step_result,
                   iterations, results, mpc, mit, effectiveness>>

(* Part V: a run_simulation call concurrent with the engine's other calls,
   the orchestrator of v1 and agents-v2, simulate_cascade_failure, and
   BatchProcessor. *)
VARIABLES
    conc,         \* the concurrent run_simulation call: its position and what it read
    pipe,         \* OrchestratorAgent.run of v1 / agents-v2: its input and locals
    casc,         \* simulate_cascade_failure: its input and locals
    batch         \* BatchProcessor: its lock, its batches and its threads

extVars == <<conc, pipe, casc, batch>>

vars == <<engineVars, toolVars, agentVars, riskVars, extVars>>

Off == [pc |-> "off"]

ConcIdle == conc = Off
PipeIdle == pipe = Off
CascIdle == casc = Off
BatchIdle == batch = Off

\* Node attributes of the input graphs (NodeFeatures.tier,
\* NodeFeatures.criticality_score, nx 'risk_score').
TierOf(n) == IF n % 3 = 0 THEN 1 ELSE IF n % 3 = 1 THEN 2 ELSE 3

InitialCriticality(n) == ((n - 1) % 3) * 50

InitialRisk(n) == 5000      \* 0.5, in 1/10000

\* Edge attributes of the input graphs (EdgeFeatures.strength in tenths,
\* EdgeFeatures.dependency_category).
StrengthOf(s, t) == IF s < t THEN 9 ELSE 5

CategoryOf(s, t) ==
    IF t = s + 1 THEN "authentication"
    ELSE IF s > t THEN "api_call" ELSE "data_flow"

AllEdges == {e \in NodeIds \X NodeIds : e[1] # e[2]}

\* The input graphs: every graph on NodeIds with at most MaxEdges edges, and
\* the complete graph.
InputEdgeSets ==
    {E \in SUBSET AllEdges : Cardinality(E) <= MaxEdges} \cup {AllEdges}

\* The node sets of the input graphs: the first k node ids, k >= 1.  An id of
\* NodeIds beyond them is unknown to the graph.
InputNodeSets == {1..k : k \in 1..NumNodes}

\* The initial_compromised lists: every list of graph nodes (repeats
\* included) up to MaxInit long, and a list naming an unknown node.
InitialLists == UNION {[1..k -> NodeIds] : k \in 0..MaxInit} \cup {<<Ghost>>}

DrawVals == {5, 9}

Streams == [1..StreamLen -> DrawVals]

Successors(n) == SeqOfSet({e[2] : e \in {x \in gedges : x[1] = n}})

InDegree(n) == Cardinality({e \in gedges : e[2] = n})

\* The k-th smallest in-degree over the nodes of the graph (k from 1).
KthInDegree(k) ==
    CHOOSE v \in {InDegree(n) : n \in gnodes} :
        /\ Cardinality({n \in gnodes : InDegree(n) < v}) < k
        /\ k <= Cardinality({n \in gnodes : InDegree(n) <= v})

\* in_degree(target) > np.percentile(in_degrees, 75), linear interpolation,
\* both sides multiplied by 4.
AbovePercentile75(target) ==
    LET n == Cardinality(gnodes)
        q == 3 * (n - 1)
        lo == (q \div 4) + 1
        rem == q % 4
        a == KthInDegree(lo)
        b == IF rem = 0 THEN a ELSE KthInDegree(lo + 1)
    IN  4 * InDegree(target) > 4 * a + rem * (b - a)

\* The propagation rules, in the order of _initialize_propagation_rules: the
\* probability modifier as a fraction pn/pd, the delay modifier in tenths.
PropagationRules ==
    << [name |-> "tier_amplification", pn |-> 3, pd |-> 2, dm |-> 7],
       [name |-> "auth_dependency", pn |-> 2, pd |-> 1, dm |-> 5],
       [name |-> "api_integration", pn |-> 13, pd |-> 10, dm |-> 8],
       [name |-> "strong_dependency", pn |-> 7, pd |-> 5, dm |-> 9],
       [name |-> "high_indegree_vulnerability", pn |-> 6, pd |-> 5, dm |-> 10] >>

RuleCondition(name, source, target) ==
    CASE name = "tier_amplification" ->
            source \in NodeIds /\ TierOf(source) = 1
      [] name = "auth_dependency" ->
            <<source, target>> \in gedges
            /\ CategoryOf(source, target) = "authentication"
      [] name = "api_integration" ->
            <<source, target>> \in gedges
            /\ CategoryOf(source, target) = "api_call"
      [] name = "strong_dependency" -> StrengthOf(source, target) > 8
      [] OTHER -> AbovePercentile75(target)

RECURSIVE ApplyRules(_, _, _, _)
ApplyRules(i, source, target, acc) ==
    IF i > Len(PropagationRules) THEN acc
    ELSE LET r == PropagationRules[i]
         IN  IF RuleCondition(r.name, source, target)
             THEN ApplyRules(i + 1, source, target,
                             [n |-> acc.n * r.pn, d |-> acc.d * r.pd,
                              delay |-> (acc.delay * r.dm) \div 10])
             ELSE ApplyRules(i + 1, source, target, acc)

\* _calculate_propagation_parameters without a GNN engine (the constructor's
\* default): probability n/d clamped to [0,1], delay floored at 50 ms.
PropagationParameters(source, target) ==
    LET base == [n |-> 3 * StrengthOf(source, target) * (200 - nf_crit[target]),
                 d |-> 10000,
                 delay |-> base_propagation_delay * 10000]
        r == ApplyRules(1, source, target, base)
        clamped == IF r.n > r.d THEN [n |-> 1, d |-> 1] ELSE [n |-> r.n, d |-> r.d]
    IN  [n |-> clamped.n, d |-> clamped.d, delay |-> Max2(50 * 10000, r.delay)]

DrawAt(pos) == stream[pos]

NextPos(pos) == (pos % StreamLen) + 1

\* random.random() < propagation_prob
TrialSucceeds(draw, p) == draw * p.d < 10 * p.n

\* A step that tries every successor, whatever its status.
TargetAlways(target, secure) == TRUE

\* line 221: a successor is a propagation target only while it is Secure.
IsTarget(target, secure) == target \in secure

RECURSIVE Propagate(_, _, _)
\* The inner loop of _execute_simulation_step for one compromised node.
Propagate(source, targets, acc) ==
    IF targets = << >> THEN acc
    ELSE LET t == Head(targets)
         IN  IF IsTarget(t, sim.secure)
             THEN LET p == PropagationParameters(source, t)
                      hit == TrialSucceeds(DrawAt(acc.rpos), p)
                  IN  Propagate(source, Tail(targets),
                        [propagating_nodes |->
                            IF hit THEN Append(acc.propagating_nodes, t)
                                   ELSE acc.propagating_nodes,
                         propagation_paths |->
                            IF hit THEN Append(acc.propagation_paths, <<source, t>>)
                                   ELSE acc.propagation_paths,
                         trials |-> Append(acc.trials, <<source, t>>),
                         time |-> IF hit THEN acc.time + p.delay ELSE acc.time,
                         rpos |-> NextPos(acc.rpos)])
             ELSE Propagate(source, Tail(targets), acc)

NoStep == [step_number |-> -1, new_compromised |-> << >>,
           propagation_paths |-> << >>, affected_nodes |-> {}, timestamp |-> 0]

EmptyLoc == [propagating_nodes |-> << >>, propagation_paths |-> << >>,
             trials |-> << >>]

NoFrame == [actions |-> << >>, baseline |-> << >>, before |-> << >>]

GraphSnapshot == <<gnodes, gedges, nx_risk, nf_crit>>

EngineInit ==
    /\ gnodes \in InputNodeSets
    /\ gedges \in {E \in InputEdgeSets : E \subseteq gnodes \X gnodes}
    /\ nx_risk = [n \in NodeIds |-> InitialRisk(n)]
    /\ nf_crit = [n \in NodeIds |-> InitialCriticality(n)]
    /\ stream \in Streams
    /\ rpos = 1
    /\ initial \in InitialLists
    /\ pc = "idle"
    /\ sim = [compromised |-> {}, secure |-> {}, affected |-> {},
              step_number |-> 0, simulation_time |-> 0, steps |-> << >>]
    /\ order = << >>
    /\ loc = EmptyLoc
    /\ step_result = NoStep
    /\ iterations = 0
    /\ results = << >>
    /\ mpc = "none"
    /\ mit = NoFrame
    /\ effectiveness = << >>

\* Lines 151-166: the initial simulation_state.
InitialState ==
    [compromised |-> Range(initial),
     secure |-> gnodes \ Range(initial),
     affected |-> {},
     step_number |-> 0,
     simulation_time |-> 0,
     steps |-> << >>]

\* run_simulation entered: directly by a caller that has just seeded the
\* random module, or from simulate_mitigation_effectiveness.
EnterRun ==
    /\ sim' = InitialState
    /\ iterations' = 0
    /\ step_result' = NoStep
    /\ loc' = EmptyLoc
    /\ order' = << >>
    /\ pc' = "loop"

\* A direct call of run_simulation(initial_compromised) after random.seed(s).
RunSimulation ==
    /\ pc = "idle"
    /\ mpc = "none"
    /\ Len(results) < MaxRuns
    /\ EnterRun
    /\ rpos' = 1
    /\ UNCHANGED <<toolVars, agentVars, riskVars, extVars>>
    /\ UNCHANGED <<gnodes, gedges, nx_risk, nf_crit, stream, initial, results,
                   mpc, mit, effectiveness>>

\* Lines 170-173 and 210-216: the while condition holds, the step starts and
\* takes list(simulation_state['compromised']), in whatever order the set
\* iterates.
BeginStep ==
    /\ pc = "loop"
    /\ sim.step_number < max_simulation_steps
    /\ sim.simulation_time < max_simulation_time * 10000
    /\ \E o \in Orders(sim.compromised) : order' = o
    /\ loc' = EmptyLoc
    /\ iterations' = iterations + 1
    /\ pc' = "iterate"
    /\ UNCHANGED <<toolVars, agentVars, riskVars, extVars>>
    /\ UNCHANGED <<gnodes, gedges, nx_risk, nf_crit, stream, rpos, initial, sim,
                   step_result, results, mpc, mit, effectiveness>>

\* Lines 216-233 for one compromised node: every Secure successor gets one
\* trial.
ProcessNode ==
    /\ pc = "iterate"
    /\ order # << >>
    /\ Head(order) \in gnodes
    /\ LET r == Propagate(Head(order), Successors(Head(order)),
                          [propagating_nodes |-> loc.propagating_nodes,
                           propagation_paths |-> loc.propagation_paths,
                           trials |-> loc.trials,
                           time |-> sim.simulation_time,
                           rpos |-> rpos])
       IN  /\ loc' = [propagating_nodes |-> r.propagating_nodes,
                      propagation_paths |-> r.propagation_paths,
                      trials |-> r.trials]
           /\ sim' = [sim EXCEPT !.simulation_time = r.time]
           /\ rpos' = r.rpos
    /\ order' = Tail(order)
    /\ UNCHANGED <<toolVars, agentVars, riskVars, extVars>>
    /\ UNCHANGED <<gnodes, gedges, nx_risk, nf_crit, stream, initial, pc,
                   step_result, iterations, results, mpc, mit, effectiveness>>

\* Line 218 for a compromised node that is not a node of the graph:
\* successors() raises NetworkXError, which leaves the step and the loop.
ProcessUnknownNode ==
    /\ pc = "iterate"
    /\ order # << >>
    /\ Head(order) \notin gnodes
    /\ pc' = "except"
    /\ UNCHANGED <<toolVars, agentVars, riskVars, extVars>>
    /\ UNCHANGED <<gnodes, gedges, nx_risk, nf_crit, stream, rpos, initial, sim,
                   order, loc, step_result, iterations, results, mpc, mit,
                   effectiveness>>

RECURSIVE MovedNodes(_, _)
\* Lines 236-240: the propagating nodes that are still Secure, each once, in
\* list order.
MovedNodes(nodes, secure) ==
    IF nodes = << >> THEN << >>
    ELSE IF Head(nodes) \in secure
         THEN <<Head(nodes)>> \o MovedNodes(Tail(nodes), secure \ {Head(nodes)})
         ELSE MovedNodes(Tail(nodes), secure)

\* A step that keeps only the newly moved nodes.
ReplaceCompromised(compromised, moved) == moved

\* Line 239: simulation_state['compromised'].add(node) for every moved node.
AddCompromised(compromised, moved) == compromised \cup moved

\* Lines 243-246: Secure out-neighbours of Compromised nodes join 'affected'.
AffectedAfter(affected, compromised, secure) ==
    affected \cup {e[2] : e \in {x \in gedges : x[1] \in compromised /\ x[2] \in secure}}

\* Lines 235-264: the rest of _execute_simulation_step, returning the
\* SimulationStep.  (Every compromised node iterated at 243 is a graph node
\* here: an unknown one has already raised at 218.)
FinishStep ==
    /\ pc = "iterate"
    /\ order = << >>
    /\ gnodes # {}
    /\ LET moved == MovedNodes(loc.propagating_nodes, sim.secure)
           comp == AddCompromised(sim.compromised, Range(moved))
           sec == sim.secure \ Range(moved)
           aff == AffectedAfter(sim.affected, comp, sec)
       IN  /\ sim' = [sim EXCEPT !.compromised = comp, !.secure = sec,
                                 !.affected = aff]
           /\ step_result' = [step_number |-> sim.step_number,
                              new_compromised |-> moved,
                              propagation_paths |-> loc.propagation_paths,
                              affected_nodes |-> aff,
                              timestamp |-> sim.simulation_time]
    /\ pc' = "check"
    /\ UNCHANGED <<toolVars, agentVars, riskVars, extVars>>
    /\ UNCHANGED <<gnodes, gedges, nx_risk, nf_crit, stream, rpos, initial, order,
                   loc, iterations, results, mpc, mit, effectiveness>>

\* Lines 235-254 on a graph without nodes: network_coverage divides by
\* len(self.graph.graph.nodes()) = 0 and the step raises ZeroDivisionError.
FinishStepNoNodes ==
    /\ pc = "iterate"
    /\ order = << >>
    /\ gnodes = {}
    /\ LET moved == MovedNodes(loc.propagating_nodes, sim.secure)
           comp == AddCompromised(sim.compromised, Range(moved))
           sec == sim.secure \ Range(moved)
       IN  sim' = [sim EXCEPT !.compromised = comp, !.secure = sec,
                              !.affected = AffectedAfter(sim.affected, comp, sec)]
    /\ pc' = "except"
    /\ UNCHANGED <<toolVars, agentVars, riskVars, extVars>>
    /\ UNCHANGED <<gnodes, gedges, nx_risk, nf_crit, stream, rpos, initial, order,
                   loc, step_result, iterations, results, mpc, mit, effectiveness>>

\* Line 175: step_result['new_compromised'] subscripts a SimulationStep
\* dataclass instance, which raises TypeError on every evaluation; lines
\* 176-186 are never reached.
CheckStep ==
    /\ pc = "check"
    /\ pc' = "except"
    /\ UNCHANGED <<toolVars, agentVars, riskVars, extVars>>
    /\ UNCHANGED <<gnodes, gedges, nx_risk, nf_crit, stream, rpos, initial, sim,
                   order, loc, step_result, iterations, results, mpc, mit,
                   effectiveness>>

\* Lines 188-206: the partial SimulationResult of the except clause.
FailedResult ==
    [status |-> "failed",
     initial_compromised |-> initial,
     final_compromised |-> sim.compromised,
     total_affected |-> Cardinality(sim.compromised) + Cardinality(sim.affected),
     blast_radius |-> Cardinality(sim.compromised) - Len(initial),
     cascade_depth |-> sim.step_number,
     propagation_time |-> sim.simulation_time,
     steps |-> sim.steps,
     last_step |-> step_result]

\* Lines 188-206, returning to a direct caller.
HandleFailure ==
    /\ pc = "except"
    /\ mpc = "none"
    /\ results' = Append(results, FailedResult)
    /\ pc' = "idle"
    /\ UNCHANGED <<toolVars, agentVars, riskVars, extVars>>
    /\ UNCHANGED <<gnodes, gedges, nx_risk, nf_crit, stream, rpos, initial, sim,
                   order, loc, step_result, iterations, mpc, mit, effectiveness>>

(***************************************************************************)
(* simulate_mitigation_effectiveness and _apply_mitigations.               *)
(***************************************************************************)
MitigationTypes == {"isolation", "hardening", "redundancy"}

\* An action {'type': ty, 'target': t}: t is a node id for isolation and
\* hardening, and the one-element list [t] for redundancy.
MitigationActions == [type : MitigationTypes, target : NodeIds]

ActionLists == UNION {[1..k -> MitigationActions] : k \in 0..MaxActions}

\* Line 577: modified_graph = self.graph binds a second name to the same
\* object; no copy is made, so every edit below is an edit of self.graph.
ModifiedGraph(g) == g

\* Lines 580-601 for one action, on the graph g = <<nodes, edges, risk, crit>>.
ApplyOne(g, action) ==
    LET nodes == g[1]
        edges == g[2]
        risk == g[3]
        crit == g[4]
        t == action.target
    IN  IF t \notin nodes THEN g
        ELSE CASE action.type = "isolation" ->
                    <<nodes \ {t}, {e \in edges : e[1] # t /\ e[2] # t}, risk, crit>>
               [] action.type = "hardening" ->
                    <<nodes, edges, [risk EXCEPT ![t] = (risk[t] * 3) \div 10], crit>>
               [] OTHER ->
                    <<nodes, edges, risk, [crit EXCEPT ![t] = Min2(100, crit[t] + 20)]>>

RECURSIVE ApplyAll(_, _)
ApplyAll(g, actions) ==
    IF actions = << >> THEN g
    ELSE ApplyAll(ApplyOne(g, Head(actions)), Tail(actions))

\* Lines 540-545: the call, and the baseline run it starts.
StartMitigation ==
    /\ pc = "idle"
    /\ mpc = "none"
    /\ results = << >>
    /\ \E actions \in ActionLists :
          mit' = [actions |-> actions, baseline |-> << >>, before |-> GraphSnapshot]
    /\ mpc' = "baseline"
    /\ EnterRun
    /\ UNCHANGED <<toolVars, agentVars, riskVars, extVars>>
    /\ UNCHANGED <<gnodes, gedges, nx_risk, nf_crit, stream, rpos, initial,
                   results, effectiveness>>

\* Lines 188-206 returning the baseline result to line 545.
ReturnBaseline ==
    /\ pc = "except"
    /\ mpc = "baseline"
    /\ mit' = [mit EXCEPT !.baseline = <<FailedResult>>]
    /\ results' = Append(results, FailedResult)
    /\ pc' = "idle"
    /\ mpc' = "apply"
    /\ UNCHANGED <<toolVars, agentVars, riskVars, extVars>>
    /\ UNCHANGED <<gnodes, gedges, nx_risk, nf_crit, stream, rpos, initial, sim,
                   order, loc, step_result, iterations, effectiveness>>

\* Lines 548-555: _apply_mitigations edits the graph it was given, the
\* engine's graph is "replaced" by it, and the mitigated run starts.
ApplyMitigations ==
    /\ mpc = "apply"
    /\ pc = "idle"
    /\ LET g == ApplyAll(ModifiedGraph(GraphSnapshot), mit.actions)
       IN  /\ gnodes' = g[1]
           /\ gedges' = g[2]
           /\ nx_risk' = g[3]
           /\ nf_crit' = g[4]
    /\ mpc' = "mitigated"
    /\ EnterRun
    /\ UNCHANGED <<toolVars, agentVars, riskVars, extVars>>
    /\ UNCHANGED <<stream, rpos, initial, results, mit, effectiveness>>

\* Lines 188-206 returning the mitigated result, then 556-572: the finally
\* clause assigns self.graph = original_graph, the object that was edited.
FinishMitigation ==
    /\ pc = "except"
    /\ mpc = "mitigated"
    /\ results' = Append(results, FailedResult)
    /\ effectiveness' =
          <<[baseline_impact |-> mit.baseline[1].total_affected,
             mitigated_impact |-> FailedResult.total_affected,
             impact_reduction |->
                mit.baseline[1].total_affected - FailedResult.total_affected]>>
    /\ pc' = "idle"
    /\ mpc' = "returned"
    /\ UNCHANGED <<toolVars, agentVars, riskVars, extVars>>
    /\ UNCHANGED <<gnodes, gedges, nx_risk, nf_crit, stream, rpos, initial, sim,
                   order, loc, step_result, iterations, mit>>

EngineNext ==
    \/ RunSimulation
    \/ BeginStep
    \/ ProcessNode
    \/ ProcessUnknownNode
    \/ FinishStep
    \/ FinishStepNoNodes
    \/ CheckStep
    \/ HandleFailure
    \/ StartMitigation
    \/ ReturnBaseline
    \/ ApplyMitigations
    \/ FinishMitigation


(***************************************************************************)
(* Part II.  simulate_propagation (v1/agents/simulation/agent.py) and the  *)
(* mitigation evaluators built on it (agents-v2/agents/mitigation/agent.py *)
(* and agents-v1/agents/mitigation/agent.py).  A graph is a record        *)
(* [nodes, edges]; a call that raises returns a record with raised = TRUE. *)
(***************************************************************************)
ToolIds == 1..ToolNodes

ToolAllEdges == {e \in ToolIds \X ToolIds : e[1] # e[2]}

ToolGraphs ==
    {[nodes |-> ToolIds, edges |-> E] :
        E \in {X \in SUBSET ToolAllEdges : Cardinality(X) <= ToolEdges}
               \cup {ToolAllEdges}}

\* max_depth values given to the baseline simulation: the valid ones up to
\* MaxBaselineDepth, and one that simulate_propagation rejects.
DepthInputs == 1..MaxBaselineDepth \cup {11}

\* build_graph_tool on metadata that has 'nodes' and 'edges': add_edge also
\* adds the end points.
BuildGraph(md) ==
    [nodes |-> md.nodes \cup {e[1] : e \in md.edges} \cup {e[2] : e \in md.edges},
     edges |-> md.edges]

\* G.successors(n), in ascending order of id (the edges' insertion order).
Succ(G, n) == SeqOfSet({e[2] : e \in {x \in G.edges : x[1] = n}})

RECURSIVE ExtendAny(_, _, _)
\* A traversal that queues every successor, on the path or not.
ExtendAny(path, depth, succs) ==
    IF succs = << >> THEN << >>
    ELSE <<[path |-> Append(path, Head(succs)), depth |-> depth + 1]>>
         \o ExtendAny(path, depth, Tail(succs))

RECURSIVE Extend(_, _, _)
\* Lines 127-129: the queue entries for the successors not already on the path.
Extend(path, depth, succs) ==
    IF succs = << >> THEN << >>
    ELSE IF Head(succs) \in Range(path)
         THEN Extend(path, depth, Tail(succs))
         ELSE <<[path |-> Append(path, Head(succs)), depth |-> depth + 1]>>
              \o Extend(path, depth, Tail(succs))

RECURSIVE BFS(_, _, _, _, _, _)
\* The while loop of enumerate_paths_tool (lines 104-129).
BFS(G, queue, paths, iters, max_depth, max_paths) ==
    IF queue = << >> \/ Len(paths) >= max_paths \/ iters + 1 > max_paths * 10
    THEN paths
    ELSE LET item == Head(queue)
             path == item.path
             current == path[Len(path)]
             recorded == IF Len(path) > 1 /\ path \notin Range(paths)
                         THEN Append(paths, path) ELSE paths
             more == IF item.depth < max_depth
                     THEN Extend(path, item.depth, Succ(G, current)) ELSE << >>
         IN  BFS(G, Tail(queue) \o more, recorded, iters + 1, max_depth, max_paths)

\* enumerate_paths_tool, lines 92-134.
EnumeratePaths(G, source, max_depth, max_paths) ==
    IF source \notin G.nodes THEN << >>
    ELSE BFS(G, <<[path |-> <<source>>, depth |-> 0]>>, << >>, 0, max_depth, max_paths)

RECURSIVE BFSIterations(_, _, _, _, _, _)
\* The number of queue entries the while loop of lines 104-129 pops before it
\* stops (the counter 'iterations' is one more when the safety limit stops it).
BFSIterations(G, queue, paths, iters, max_depth, max_paths) ==
    IF queue = << >> \/ Len(paths) >= max_paths \/ iters + 1 > max_paths * 10
    THEN iters
    ELSE LET item == Head(queue)
             path == item.path
             recorded == IF Len(path) > 1 /\ path \notin Range(paths)
                         THEN Append(paths, path) ELSE paths
             more == IF item.depth < max_depth
                     THEN Extend(path, item.depth, Succ(G, path[Len(path)]))
                     ELSE << >>
         IN  BFSIterations(G, Tail(queue) \o more, recorded, iters + 1,
                           max_depth, max_paths)

\* The pops of one call of enumerate_paths_tool.
QueueIterations(G, source, max_depth, max_paths) ==
    IF source \notin G.nodes THEN 0
    ELSE BFSIterations(G, <<[path |-> <<source>>, depth |-> 0]>>, << >>, 0,
                       max_depth, max_paths)

RECURSIVE MaxLen(_)
MaxLen(paths) ==
    IF paths = << >> THEN 0
    ELSE Max2(Len(Head(paths)) - 1, MaxLen(Tail(paths)))

Raised == [raised |-> TRUE]

\* simulate_propagation, lines 176-217.
SimulatePropagation(vendor_id, max_depth, md) ==
    IF max_depth < 1 \/ max_depth > 10 THEN Raised
    ELSE LET G == BuildGraph(md)
             paths == EnumeratePaths(G, vendor_id, max_depth, max_paths_limit)
         IN  [raised |-> FALSE,
              source_vendor_id |-> vendor_id,
              propagation_paths |-> paths,
              unique_affected_nodes |->
                  SeqOfSet(UNION {Range(Tail(paths[i])) : i \in DOMAIN paths}),
              metrics |-> [max_path_length |-> MaxLen(paths),
                           total_paths |-> Len(paths)]]

\* A copy of the graph that still has the node.
KeepNode(G, n) == G

\* G.copy() and remove_node (v2 lines 82-83).
RemoveNode(G, n) ==
    [nodes |-> G.nodes \ {n},
     edges |-> {e \in G.edges : e[1] # n /\ e[2] # n}]

RemoveEdge(G, e) == [nodes |-> G.nodes, edges |-> G.edges \ {e}]

Infeasible == [risk_reduction |-> [n |-> 0, d |-> 1], paths_reduced |-> 0,
               feasible |-> FALSE]

\* An except clause that reports the candidate feasible.
ExceptFeasible == [risk_reduction |-> [n |-> 0, d |-> 1], paths_reduced |-> 0,
                   feasible |-> TRUE]

\* The except clause of both evaluators (v2 lines 109-115 and 168-174).
ExceptResult == Infeasible

\* The reduction without max(0, ...).
ReductionUnclamped(original_path_count, new_path_count) ==
    LET paths_reduced == original_path_count - new_path_count
    IN  [risk_reduction |-> IF original_path_count > 0
                            THEN [n |-> paths_reduced, d |-> original_path_count]
                            ELSE [n |-> 0, d |-> 1],
         paths_reduced |-> paths_reduced,
         feasible |-> TRUE]

\* v2 lines 99-108 (and 158-167): paths_reduced and risk_reduction.
Reduction(original_path_count, new_path_count) ==
    LET paths_reduced == Max2(0, original_path_count - new_path_count)
    IN  [risk_reduction |-> IF original_path_count > 0
                            THEN [n |-> paths_reduced, d |-> original_path_count]
                            ELSE [n |-> 0, d |-> 1],
         paths_reduced |-> paths_reduced,
         feasible |-> TRUE]

\* The re-simulation inside evaluate_node_isolation.  In agents-v1 the name
\* simulate_propagation is assigned inside the function (the import at line
\* 114) without a global declaration, so reading it at line 113 raises
\* UnboundLocalError on every call; agents-v2 imports and calls it.
ResimulateIsolation(version, source_vendor, max_depth, Gm) ==
    IF version = "v1" THEN Raised
    ELSE SimulatePropagation(source_vendor, max_depth, Gm)

\* What an evaluator call did: the dictionary it returned, whether the
\* re-simulation ran ("none", "ok", "raised") and the path count it found.
Outcome(result, resim, new_path_count) ==
    [result |-> result, resim |-> resim, new_path_count |-> new_path_count]

SettleResimulation(new_results, original_path_count) ==
    IF new_results.raised THEN Outcome(ExceptResult, "raised", 0)
    ELSE Outcome(Reduction(original_path_count, Len(new_results.propagation_paths)),
                 "ok", Len(new_results.propagation_paths))

\* evaluate_node_isolation (v2 lines 63-117, v1 lines 69-140).
EvaluateNodeIsolation(version, G, node_id, original_path_count, source_vendor, max_depth) ==
    IF node_id \notin G.nodes \/ node_id = source_vendor
    THEN Outcome(Infeasible, "none", 0)
    ELSE SettleResimulation(
             ResimulateIsolation(version, source_vendor, max_depth,
                                 RemoveNode(G, node_id)),
             original_path_count)

\* evaluate_edge_removal (v2 lines 120-176, v1 lines 143-215).
EvaluateEdgeRemoval(G, edge, original_path_count, source_vendor, max_depth) ==
    IF edge \notin G.edges
    THEN Outcome(Infeasible, "none", 0)
    ELSE SettleResimulation(
             SimulatePropagation(source_vendor, max_depth, RemoveEdge(G, edge)),
             original_path_count)

\* estimate_complexity, v2 lines 179-193.
EstimateComplexity(action_type, target, G) ==
    IF action_type = "isolate_node"
    THEN IF target \in G.nodes
         THEN LET degree == Cardinality({e \in G.edges : e[2] = target})
                            + Cardinality({e \in G.edges : e[1] = target})
              IN  IF degree <= 2 THEN "low"
                  ELSE IF degree <= 5 THEN "medium" ELSE "high"
         ELSE "medium"
    ELSE IF action_type = "remove_edge" THEN "low" ELSE "medium"

FracGt(a, b) == a.n * b.d > b.n * a.d

\* sorted(s, key=..., reverse=True): a stable sort; keys[i] is the key of
\* s[i], a fraction [n, d].
StableSortDesc(s, keys) ==
    LET n == Len(s)
        pos(i) == 1 + Cardinality({j \in 1..n : FracGt(keys[j], keys[i])})
                    + Cardinality({j \in 1..(i - 1) :
                                      ~FracGt(keys[j], keys[i])
                                      /\ ~FracGt(keys[i], keys[j])})
    IN  [p \in 1..n |-> s[CHOOSE i \in 1..n : pos(i) = p]]

RECURSIVE Flatten(_)
Flatten(ss) == IF ss = << >> THEN << >> ELSE Head(ss) \o Flatten(Tail(ss))

\* The distinct elements of a sequence in order of first occurrence (the key
\* order of a dict filled while scanning it).
Dedup(s) ==
    LET firsts == {i \in DOMAIN s : \A j \in 1..(i - 1) : s[j] # s[i]}
        rank(i) == Cardinality({j \in firsts : j <= i})
    IN  [k \in 1..Cardinality(firsts) |-> s[CHOOSE i \in firsts : rank(i) = k]]

Occurrences(s, x) == Cardinality({i \in DOMAIN s : s[i] = x})

Take(s, k) == SubSeq(s, 1, Min2(k, Len(s)))

\* The items of a counting dict, as records [key, count], in key order.
CountItems(occ) ==
    LET keys == Dedup(occ)
    IN  [i \in DOMAIN keys |-> [key |-> keys[i], count |-> Occurrences(occ, keys[i])]]

\* key=lambda x: x[1]
CountKeys(items) == [i \in DOMAIN items |-> [n |-> items[i].count, d |-> 1]]

\* The items of a counting dict by count, descending.
ByCount(occ) == StableSortDesc(CountItems(occ), CountKeys(CountItems(occ)))

\* v2 lines 232-240: the top nodes by the number of paths they lie on.
TopNodes(paths) ==
    Take(ByCount(Flatten([i \in DOMAIN paths |-> Tail(paths[i])])),
         Min2(5, max_mitigations))

PathEdges(path) == [i \in 1..(Len(path) - 1) |-> <<path[i], path[i + 1]>>]

\* v2 lines 263-275: the top edges by the number of paths they lie on.
TopEdges(paths, remaining_slots) ==
    Take(ByCount(Flatten([i \in DOMAIN paths |-> PathEdges(paths[i])])),
         Min2(5, remaining_slots))

\* v2 lines 215-216: the depth of every re-simulation.
ResimulationDepth(simulation_results) ==
    Max2(simulation_results.metrics.max_path_length + 1, 3)

\* The sort key of v2 line 296: risk_reduction only.
RiskKeys(ms) == [i \in DOMAIN ms |-> ms[i].risk_reduction]

\* v2 lines 295-304: the ranking and the output.
RankedOutput(ms, original_paths) ==
    LET ranked == StableSortDesc(ms, RiskKeys(ms))
    IN  [raised |-> FALSE,
         ranked_mitigations |-> ranked,
         total_paths_original |-> Len(original_paths),
         total_paths_reducible |->
             LET sum[i \in 0..Len(ranked)] ==
                     IF i = 0 THEN 0 ELSE sum[i - 1] + ranked[i].affected_paths_reduced
             IN  sum[Len(ranked)]]

NoOutput == [raised |-> FALSE, pending |-> TRUE]

ToolIdle ==
    /\ tin = [graph |-> [nodes |-> {}, edges |-> {}], vendor_id |-> 0,
              max_depth |-> 0, version |-> "none"]
    /\ tpc = "off"
    /\ baseline = Raised
    /\ cands = << >>
    /\ evals = << >>
    /\ mitigations = << >>
    /\ toutput = NoOutput

\* A graph that is one chain 1 -> 2 -> ... -> LongChainNodes, simulated from
\* its first node with the two largest depths simulate_propagation accepts.
LongChain ==
    [nodes |-> 1..LongChainNodes,
     edges |-> {<<i, i + 1>> : i \in 1..(LongChainNodes - 1)}]

LongChainInputs ==
    [graph : {LongChain}, vendor_id : {1}, max_depth : {9, 10}, version : {"v1", "v2"}]

ToolInit ==
    /\ tin \in [graph : ToolGraphs, vendor_id : {1, Ghost}, max_depth : DepthInputs,
                version : {"v1", "v2"}]
               \cup LongChainInputs
    /\ tpc = "input"
    /\ baseline = Raised
    /\ cands = << >>
    /\ evals = << >>
    /\ mitigations = << >>
    /\ toutput = NoOutput

\* The baseline call simulate_propagation(vendor_id, max_depth, graph_metadata).
Simulate ==
    /\ tpc = "input"
    /\ baseline' = SimulatePropagation(tin.vendor_id, tin.max_depth, tin.graph)
    /\ tpc' = IF baseline'.raised THEN "rejected" ELSE "simulated"
    /\ UNCHANGED <<engineVars, agentVars, riskVars, extVars>>
    /\ UNCHANGED <<tin, cands, evals, mitigations, toutput>>

\* evaluate_mitigations, v2 lines 204-224, when there is no path to mitigate.
EvaluateNothing ==
    /\ tpc = "simulated"
    /\ baseline.propagation_paths = << >>
    /\ toutput' = [raised |-> FALSE, ranked_mitigations |-> << >>,
                   total_paths_original |-> 0, total_paths_reducible |-> 0]
    /\ tpc' = "done"
    /\ UNCHANGED <<engineVars, agentVars, riskVars, extVars>>
    /\ UNCHANGED <<tin, baseline, cands, evals, mitigations>>

NodeCandidates(paths) ==
    LET top == TopNodes(paths)
    IN  [i \in DOMAIN top |->
            [kind |-> "isolate_node", target |-> top[i].key, path_count |-> top[i].count]]

EdgeCandidates(paths, remaining_slots) ==
    LET top == TopEdges(paths, remaining_slots)
    IN  [i \in DOMAIN top |->
            [kind |-> "remove_edge", target |-> top[i].key, path_count |-> top[i].count]]

\* evaluate_mitigations, v2 lines 204-240: validation, the graph, top_nodes.
StartEvaluation ==
    /\ tpc = "simulated"
    /\ baseline.propagation_paths # << >>
    /\ cands' = NodeCandidates(baseline.propagation_paths)
    /\ evals' = << >>
    /\ mitigations' = << >>
    /\ tpc' = "nodes"
    /\ UNCHANGED <<engineVars, agentVars, riskVars, extVars>>
    /\ UNCHANGED <<tin, baseline, toutput>>

MitigationAction(c, result, G) ==
    [action_type |-> c.kind,
     target |-> c.target,
     risk_reduction |-> result.risk_reduction,
     affected_paths_reduced |-> result.paths_reduced,
     implementation_complexity |-> EstimateComplexity(c.kind, c.target, G)]

\* MitigationAction's field constraints (schema.py lines 14-15).
ValidAction(result) ==
    /\ result.risk_reduction.n >= 0
    /\ result.risk_reduction.n <= result.risk_reduction.d
    /\ result.paths_reduced >= 0

\* v2 lines 250-260 and 284-293: a feasible candidate with a positive
\* risk_reduction becomes a MitigationAction.
Kept(ms, c, result, G) ==
    IF result.feasible /\ result.risk_reduction.n > 0
    THEN Append(ms, MitigationAction(c, result, G))
    ELSE ms

\* v2 lines 250-260: building the MitigationAction validates its fields; a
\* ValidationError is not caught by evaluate_mitigations.
Rejected(result) ==
    result.feasible /\ result.risk_reduction.n > 0 /\ ~ValidAction(result)

\* The effect of one candidate's evaluation on evaluate_mitigations.
Record(c, o, G) ==
    /\ evals' = Append(evals, [cand |-> c, outcome |-> o])
    /\ cands' = Tail(cands)
    /\ IF Rejected(o.result)
       THEN /\ tpc' = "raised"
            /\ toutput' = Raised
            /\ UNCHANGED mitigations
       ELSE /\ mitigations' = Kept(mitigations, c, o.result, G)
            /\ UNCHANGED <<tpc, toutput>>

\* v2 lines 242-260 for one node of top_nodes.
EvaluateNodeCandidate ==
    /\ tpc = "nodes"
    /\ cands # << >>
    /\ Len(mitigations) < max_mitigations
    /\ LET c == Head(cands)
           G == BuildGraph(tin.graph)
       IN  Record(c,
                  IF c.target # baseline.source_vendor_id
                  THEN EvaluateNodeIsolation(tin.version, G, c.target,
                                             Len(baseline.propagation_paths),
                                             baseline.source_vendor_id,
                                             ResimulationDepth(baseline))
                  ELSE Outcome(Infeasible, "skipped", 0),
                  G)
    /\ UNCHANGED <<engineVars, agentVars, riskVars, extVars>>
    /\ UNCHANGED <<tin, baseline>>

\* v2 lines 262-275: the node loop is over; top_edges.
StartEdges ==
    /\ tpc = "nodes"
    /\ cands = << >> \/ Len(mitigations) >= max_mitigations
    /\ cands' = EdgeCandidates(baseline.propagation_paths,
                               max_mitigations - Len(mitigations))
    /\ tpc' = "edges"
    /\ UNCHANGED <<engineVars, agentVars, riskVars, extVars>>
    /\ UNCHANGED <<tin, baseline, evals, mitigations, toutput>>

\* v2 lines 277-293 for one edge of top_edges.
EvaluateEdgeCandidate ==
    /\ tpc = "edges"
    /\ cands # << >>
    /\ Len(mitigations) < max_mitigations
    /\ LET c == Head(cands)
           G == BuildGraph(tin.graph)
       IN  Record(c,
                  EvaluateEdgeRemoval(G, c.target, Len(baseline.propagation_paths),
                                      baseline.source_vendor_id,
                                      ResimulationDepth(baseline)),
                  G)
    /\ UNCHANGED <<engineVars, agentVars, riskVars, extVars>>
    /\ UNCHANGED <<tin, baseline>>

\* v2 lines 295-308: the ranking, the totals and the return.
Rank ==
    /\ tpc = "edges"
    /\ cands = << >> \/ Len(mitigations) >= max_mitigations
    /\ toutput' = RankedOutput(mitigations, baseline.propagation_paths)
    /\ tpc' = "done"
    /\ UNCHANGED <<engineVars, agentVars, riskVars, extVars>>
    /\ UNCHANGED <<tin, baseline, cands, evals, mitigations>>

\* A direct call of evaluate_node_isolation or evaluate_edge_removal on the
\* input graph, with an empty original_paths list or with the baseline's.
EvaluateDirectly ==
    /\ tpc = "simulated"
    /\ \E count \in {0, Len(baseline.propagation_paths)} :
       \E depth \in 1..MaxBaselineDepth :
          \/ \E n \in ToolIds :
                toutput' = [raised |-> FALSE, original_path_count |-> count,
                            kind |-> "isolate_node", target |-> n,
                            outcome |-> EvaluateNodeIsolation(
                                tin.version, BuildGraph(tin.graph), n, count,
                                tin.vendor_id, depth)]
          \/ \E e \in tin.graph.edges :
                toutput' = [raised |-> FALSE, original_path_count |-> count,
                            kind |-> "remove_edge", target |-> e,
                            outcome |-> EvaluateEdgeRemoval(
                                BuildGraph(tin.graph), e, count, tin.vendor_id, depth)]
    /\ tpc' = "direct"
    /\ UNCHANGED <<engineVars, agentVars, riskVars, extVars>>
    /\ UNCHANGED <<tin, baseline, cands, evals, mitigations>>

\* A direct call of enumerate_paths_tool on the input graph with a small
\* max_paths (simulate_propagation always passes max_paths_limit).
EnumerateDirectly ==
    /\ tpc = "input"
    /\ \E cap \in 1..MaxPathCap :
       \E depth \in 1..MaxBaselineDepth :
          toutput' = [raised |-> FALSE, kind |-> "enumerate_paths",
                      max_paths |-> cap, max_depth |-> depth,
                      paths |-> EnumeratePaths(BuildGraph(tin.graph),
                                               tin.vendor_id, depth, cap),
                      iterations |-> QueueIterations(BuildGraph(tin.graph),
                                               tin.vendor_id, depth, cap)]
    /\ tpc' = "enumerated"
    /\ UNCHANGED <<engineVars, agentVars, riskVars, extVars>>
    /\ UNCHANGED <<tin, baseline, cands, evals, mitigations>>

ToolNext ==
    \/ Simulate
    \/ EvaluateNothing
    \/ StartEvaluation
    \/ EvaluateNodeCandidate
    \/ StartEdges
    \/ EvaluateEdgeCandidate
    \/ Rank
    \/ EvaluateDirectly
    \/ EnumerateDirectly


EngineIdle ==
    /\ gnodes = {}
    /\ gedges = {}
    /\ nx_risk = << >>
    /\ nf_crit = << >>
    /\ stream = << >>
    /\ rpos = 1
    /\ initial = << >>
    /\ pc = "off"
    /\ sim = [compromised |-> {}, secure |-> {}, affected |-> {},
              step_number |-> 0, simulation_time |-> 0, steps |-> << >>]
    /\ order = << >>
    /\ loc = EmptyLoc
    /\ step_result = NoStep
    /\ iterations = 0
    /\ results = << >>
    /\ mpc = "off"
    /\ mit = NoFrame
    /\ effectiveness = << >>

(***************************************************************************)
(* Part III.  The pipeline of agents-v0/orchestrator/agent.py:            *)
(* SimulationAgent.run (agents/simulation/agent.py), whose output is the   *)
(* MitigationInput of MitigationAgent.run (agents/mitigation/agent.py).    *)
(* graph_data is the set of the edges of the adjacency list.               *)
(***************************************************************************)
AgentIds == 1..AgentNodes

\* graph_data is any adjacency list over the ids: an entry may list its own key.
AgentInputs ==
    [graph_data : SUBSET (AgentIds \X AgentIds),
     vendor_id : AgentIds,
     max_depth : 1..MaxAgentDepth]

\* _build_graph: the nodes are the end points of the edges.
AgentGraph(adjacency_list) ==
    [nodes |-> {e[1] : e \in adjacency_list} \cup {e[2] : e \in adjacency_list},
     edges |-> adjacency_list]

RECURSIVE SimplePathsFrom(_, _, _)
\* The simple paths that extend the paths of frontier by at most k edges.
SimplePathsFrom(G, frontier, k) ==
    IF k = 0 \/ frontier = {} THEN {}
    ELSE LET Steps(q) == {x \in G.edges : x[1] = q[Len(q)] /\ x[2] \notin Range(q)}
             longer == UNION {{Append(q, e[2]) : e \in Steps(q)} : q \in frontier}
         IN  longer \cup SimplePathsFrom(G, longer, k - 1)

\* nx.all_simple_paths(graph, source, target, cutoff).
AllSimplePaths(G, source, target, cutoff) ==
    {q \in SimplePathsFrom(G, {<<source>>}, cutoff) : q[Len(q)] = target}

\* nx.descendants(graph, source): the nodes reachable from source, without it.
Descendants(G, source) ==
    {q[Len(q)] : q \in SimplePathsFrom(G, {<<source>>}, Cardinality(G.nodes))}

\* SimulationAgent._enumerate_paths, lines 97-135.  The list's order is the
\* iteration order of a set; its users read its length and its nodes.
AgentEnumeratePaths(G, source, max_depth) ==
    UNION {AllSimplePaths(G, source, target, max_depth) : target \in Descendants(G, source)}
    \cup {<<source, e[2]>> : e \in {x \in G.edges : x[1] = source}}

\* out_degree(node) of the DiGraph.
OutDegree(G, node) == Cardinality({e \in G.edges : e[1] = node})

\* sum(len(path) - 1 for path in paths)
RECURSIVE TotalLength(_)
TotalLength(paths) ==
    IF paths = {} THEN 0
    ELSE LET q == CHOOSE x \in paths : TRUE
         IN  (Len(q) - 1) + TotalLength(paths \ {q})

\* SimulationAgent._calculate_metrics, lines 145-173; average_path_length is
\* round(total_length / len(paths), 2), in hundredths.
CalculateMetrics(G, paths, affected_nodes) ==
    [total_affected_nodes |-> Cardinality(affected_nodes),
     max_fan_out |-> LET degrees == {0} \cup {OutDegree(G, n) : n \in affected_nodes \cap G.nodes}
                     IN  CHOOSE d \in degrees : \A x \in degrees : x <= d,
     average_path_length |->
         IF paths # {}
         THEN (200 * TotalLength(paths) + Cardinality(paths)) \div (2 * Cardinality(paths))
         ELSE 0]

\* A run that reports every node of the graph as affected by a missing source.
EveryNodeAffected(input_data) ==
    [source_vendor_id |-> input_data.vendor_id,
     propagation_paths |-> {},
     affected_node_ids |-> SeqOfSet(AgentGraph(input_data.graph_data).nodes),
     metrics |-> [total_affected_nodes |-> Cardinality(AgentGraph(input_data.graph_data).nodes),
                  max_fan_out |-> 0, average_path_length |-> 0]]

\* SimulationAgent.run, lines 48-59: the output for a source that is not a
\* node of the graph; average_path_length 0.0 in hundredths.
MissingSourceOutput(input_data) ==
    [source_vendor_id |-> input_data.vendor_id,
     propagation_paths |-> {},
     affected_node_ids |-> << >>,
     metrics |-> [total_affected_nodes |-> 0, max_fan_out |-> 0, average_path_length |-> 0]]

\* SimulationAgent.run, lines 44-87.
SimulationRun(input_data) ==
    LET graph == AgentGraph(input_data.graph_data)
        paths == AgentEnumeratePaths(graph, input_data.vendor_id, input_data.max_depth)
        affected == UNION {Range(Tail(q)) : q \in paths}
    IN  IF input_data.vendor_id \notin graph.nodes
        THEN MissingSourceOutput(input_data)
        ELSE [source_vendor_id |-> input_data.vendor_id,
              propagation_paths |-> paths,
              affected_node_ids |-> SeqOfSet(affected),
              metrics |-> CalculateMetrics(graph, paths, affected)]

\* MitigationAgent._count_paths_through_node, lines 214-251.
CountPathsThroughNode(G, source, intermediate_node) ==
    IF intermediate_node \notin G.nodes \/ source \notin G.nodes THEN 0
    ELSE LET reachable == Descendants(G, source)
         IN  Cardinality({target \in reachable \ {intermediate_node} :
                             \E q \in AllSimplePaths(G, source, target, 10) :
                                 intermediate_node \in Range(q)})
             + (IF intermediate_node \in reachable THEN 1 ELSE 0)

\* MitigationAgent._evaluate_node_isolation, lines 170-212.
AgentEvaluateNodeIsolation(G, source, node_to_remove, baseline_affected) ==
    IF node_to_remove \notin G.nodes
    THEN [paths_reduced |-> 0, nodes_reduced |-> 0]
    ELSE LET modified_graph == RemoveNode(G, node_to_remove)
             new_affected == IF source \in modified_graph.nodes
                             THEN Cardinality(Descendants(modified_graph, source))
                             ELSE 0
         IN  [paths_reduced |-> CountPathsThroughNode(G, source, node_to_remove),
              nodes_reduced |-> baseline_affected - new_affected]

\* Lines 88-99: risk_reduction = 0.6 * paths_reduced / baseline_paths
\* + 0.4 * nodes_reduced / baseline_affected, as an exact fraction.
CombinedRiskReduction(r, baseline_paths, baseline_affected) ==
    IF baseline_paths > 0
    THEN [n |-> 6 * r.paths_reduced * baseline_affected
                + 4 * r.nodes_reduced * baseline_paths,
          d |-> 10 * baseline_paths * baseline_affected]
    ELSE [n |-> 4 * r.nodes_reduced, d |-> 10 * baseline_affected]

\* round(risk_reduction, 3) of a positive value, in thousandths.
Round3(f) == (2000 * f.n + f.d) \div (2 * f.d)

\* risk_reduction: float = Field(..., ge=0, le=1), in thousandths.
ValidRiskReduction(thousandths) == thousandths >= 0 /\ thousandths <= 1000

\* key=lambda x: x.risk_reduction (thousandths)
AgentRiskKeys(ms) == [i \in DOMAIN ms |-> [n |-> ms[i].risk_reduction, d |-> 1000]]

\* The locals of OrchestratorAgent.run before its first step: trace = [].
\* runs lists the agents whose run method was called and feeds, for each of
\* them, the locals of run that the agent's input was built from.
NoOrchestration ==
    [trace |-> << >>, runs |-> << >>, feeds |-> << >>, impact_input |-> << >>, impact_output |-> << >>,
     mitigation_input |-> << >>, returned |-> FALSE, output |-> << >>]

\* A trace that no agent is appended to.
TraceKept(trace, agent_name) == trace

\* trace.append(TraceMetadata(agent_name=..., execution_order=len + 1)),
\* lines 53-58, 69-74 and 86-91.
TraceAppend(trace, agent_name) ==
    Append(trace, [agent_name |-> agent_name, execution_order |-> Len(trace) + 1])

\* SimulationInput(...), lines 46-50, reads input and self.graph_data.
SimulationInputReads == {"input", "self.graph_data"}

\* ImpactReasoningInput(...), lines 62-66, reads simulation_output.
ImpactInputReads == {"simulation_output"}

\* MitigationInput(...), lines 77-83, reads self.graph_data, input and
\* simulation_output.
MitigationInputReads == {"self.graph_data", "input", "simulation_output"}

\* ImpactReasoningInput(...), lines 62-66: built from simulation_output.
ImpactInput(simulation_output) ==
    [propagation_paths |-> simulation_output.propagation_paths,
     affected_nodes |-> simulation_output.affected_node_ids,
     node_metadata |-> << >>]

\* ImpactReasoningAgent._reason_fallback, lines 157-189: one explanation for
\* each of the first 10 paths.
ReasonFallback(input_data) ==
    [reasoned_by |-> "fallback",
     explanations |-> Min2(Cardinality(input_data.propagation_paths), 10),
     summary |-> <<Cardinality(input_data.propagation_paths), Len(input_data.affected_nodes)>>]

\* ImpactReasoningAgent.run, lines 73-95: without a client, or when the call
\* of the client fails (lines 153-155), the fallback; otherwise what the
\* client answered, which is any number of explanations.
ImpactRun(input_data) ==
    {ReasonFallback(input_data)}
    \cup {[reasoned_by |-> "llm", explanations |-> k, summary |-> << >>] :
              k \in 0..Cardinality(input_data.propagation_paths)}

\* MitigationInput(...), lines 77-83: built from the orchestrator's graph and
\* input and from simulation_output; impact_output is not read.
MitigationInput(input, simulation_output) ==
    [graph_data |-> input.graph_data,
     source_vendor_id |-> input.vendor_id,
     affected_nodes |-> simulation_output.affected_node_ids,
     propagation_paths |-> simulation_output.propagation_paths]

\* Lines 86-101 of OrchestratorAgent.run: the third TraceMetadata and the OrchestratorOutput.
Returned(o, input, simulation_output, mitigation_output) ==
    LET trace == TraceAppend(o.trace, "MitigationAgent")
    IN  [o EXCEPT !.trace = trace,
                  !.returned = TRUE,
                  !.output = [vendor_id |-> input.vendor_id,
                              simulation_results |-> simulation_output,
                              impact_analysis |-> o.impact_output,
                              mitigations |-> mitigation_output,
                              trace |-> trace]]

AgentInit ==
    /\ ain \in AgentInputs
    /\ apc = "input"
    /\ simout = << >>
    /\ mrun = << >>
    /\ aoutput = << >>
    /\ orch = NoOrchestration
    /\ orch = NoOrchestration

\* OrchestratorAgent.run, lines 45-58 (step 1): SimulationInput is built from
\* the orchestrator's input and graph, SimulationAgent.run is called, and its
\* TraceMetadata is appended.  An empty graph_data is replaced by the sample
\* graph (line 33), whose vendors are none of the input's: the source is then
\* as missing as it is in the empty graph.
RunSimulationAgent ==
    /\ apc = "input"
    /\ simout' = SimulationRun(ain)
    /\ orch' = [orch EXCEPT !.trace = TraceAppend(@, "SimulationAgent"),
                            !.runs = Append(@, "SimulationAgent"),
                            !.feeds = Append(@, SimulationInputReads)]
    /\ apc' = "simulated"
    /\ UNCHANGED <<engineVars, toolVars, riskVars, extVars>>
    /\ UNCHANGED <<ain, mrun, aoutput>>

\* OrchestratorAgent.run, lines 61-74 (step 2): ImpactReasoningInput is built
\* from simulation_output, ImpactReasoningAgent.run is called (with a client,
\* whose call may fail, or without one), and its TraceMetadata is appended.
RunImpactAgent ==
    /\ apc = "simulated"
    /\ \E out \in ImpactRun(ImpactInput(simout)) :
          orch' = [orch EXCEPT !.impact_input = ImpactInput(simout),
                               !.impact_output = out,
                               !.trace = TraceAppend(@, "ImpactReasoningAgent"),
                               !.runs = Append(@, "ImpactReasoningAgent"),
                               !.feeds = Append(@, ImpactInputReads)]
    /\ apc' = "reasoned"
    /\ UNCHANGED <<engineVars, toolVars, riskVars, extVars>>
    /\ UNCHANGED <<ain, simout, mrun, aoutput>>

\* MitigationAgent.run, lines 44-59: nothing is affected.
MitigateNothing ==
    /\ apc = "reasoned"
    /\ Len(simout.affected_node_ids) = 0
    /\ aoutput' = [raised |-> FALSE, ranked_mitigations |-> << >>,
                   total_paths_before |-> Cardinality(simout.propagation_paths)]
    /\ orch' = Returned([orch EXCEPT !.mitigation_input = MitigationInput(ain, simout),
                                     !.runs = Append(@, "MitigationAgent"),
                                     !.feeds = Append(@, MitigationInputReads)],
                        ain, simout, aoutput')
    /\ apc' = "done"
    /\ UNCHANGED <<engineVars, toolVars, riskVars, extVars>>
    /\ UNCHANGED <<ain, simout, mrun>>

\* MitigationAgent.run, lines 44-69, on the MitigationInput the orchestrator
\* builds from the simulation output.
StartMitigationAgent ==
    /\ apc = "reasoned"
    /\ Len(simout.affected_node_ids) # 0
    /\ orch' = [orch EXCEPT !.mitigation_input = MitigationInput(ain, simout),
                            !.runs = Append(@, "MitigationAgent"),
                            !.feeds = Append(@, MitigationInputReads)]
    /\ mrun' = [graph |-> AgentGraph(ain.graph_data),
                baseline_paths |-> Cardinality(simout.propagation_paths),
                baseline_affected |-> Len(simout.affected_node_ids),
                todo |-> simout.affected_node_ids,
                mitigations |-> << >>]
    /\ apc' = "evaluating"
    /\ UNCHANGED <<engineVars, toolVars, riskVars, extVars>>
    /\ UNCHANGED <<ain, simout, aoutput>>

\* MitigationAgent.run, lines 72-109, for one affected node.
EvaluateAffectedNode ==
    /\ apc = "evaluating"
    /\ mrun.todo # << >>
    /\ LET node == Head(mrun.todo)
           r == AgentEvaluateNodeIsolation(mrun.graph, simout.source_vendor_id, node,
                                           mrun.baseline_affected)
           risk_reduction == CombinedRiskReduction(r, mrun.baseline_paths,
                                                   mrun.baseline_affected)
       IN  IF node = simout.source_vendor_id \/ risk_reduction.n <= 0
           THEN /\ mrun' = [mrun EXCEPT !.todo = Tail(@)]
                /\ UNCHANGED <<apc, aoutput>>
           ELSE IF ValidRiskReduction(Round3(risk_reduction))
           THEN /\ mrun' = [mrun EXCEPT
                               !.todo = Tail(@),
                               !.mitigations = Append(@,
                                   [action_type |-> "isolate_node",
                                    target |-> node,
                                    risk_reduction |-> Round3(risk_reduction),
                                    affected_paths_reduced |-> r.paths_reduced])]
                /\ UNCHANGED <<apc, aoutput>>
           ELSE /\ apc' = "raised"
                /\ aoutput' = [raised |-> TRUE, target |-> node,
                               risk_reduction |-> Round3(risk_reduction)]
                /\ UNCHANGED mrun
    /\ UNCHANGED <<engineVars, toolVars, riskVars, extVars>>
    /\ UNCHANGED <<ain, simout, orch>>

\* MitigationAgent.run, lines 111-126: the sort, the top 10 and the output.
FinishMitigationAgent ==
    /\ apc = "evaluating"
    /\ mrun.todo = << >>
    /\ aoutput' = [raised |-> FALSE,
                   ranked_mitigations |->
                       Take(StableSortDesc(mrun.mitigations, AgentRiskKeys(mrun.mitigations)), 10),
                   total_paths_before |-> mrun.baseline_paths]
    /\ orch' = Returned(orch, ain, simout, aoutput')
    /\ apc' = "done"
    /\ UNCHANGED <<engineVars, toolVars, riskVars, extVars>>
    /\ UNCHANGED <<ain, simout, mrun>>

AgentNext ==
    \/ RunSimulationAgent
    \/ RunImpactAgent
    \/ MitigateNothing
    \/ StartMitigationAgent
    \/ EvaluateAffectedNode
    \/ FinishMitigationAgent

AgentIdle ==
    /\ ain = [graph_data |-> {}, vendor_id |-> 0, max_depth |-> 0]
    /\ apc = "off"
    /\ simout = << >>
    /\ mrun = << >>
    /\ aoutput = << >>
    /\ orch = NoOrchestration

(***************************************************************************)
(* Part IV.  SupplyChainGraph.add_node / add_edge / calculate_centrality_  *)
(* metrics (backend/core/graph_engine.py), AdvancedRiskCalculator          *)
(* (backend/core/risk_calculator.py) and _calculate_propagation_parameters *)
(* of an engine constructed with a predictor.  Exact values are fractions  *)
(* [n, d] in lowest terms; the values that need a square root or a         *)
(* logarithm are in 1/10000, rounded down.                                 *)
(***************************************************************************)
RECURSIVE Gcd(_, _)
Gcd(a, b) == IF b = 0 THEN a ELSE Gcd(b, a % b)

Frac(n, d) ==
    LET g == Gcd(IF n < 0 THEN -n ELSE n, d)
    IN  [n |-> n \div g, d |-> d \div g]

FracAdd(a, b) == Frac(a.n * b.d + b.n * a.d, a.d * b.d)

FracMul(a, b) == Frac(a.n * b.n, a.d * b.d)

FracMin(a, b) == IF FracGt(a, b) THEN b ELSE a

\* A float as a whole number of 1/10000, rounded down.
Fixed(f) == (f.n * 10000) \div f.d

\* The 'risk_score' values add_node is called with, per node, in 1/10000.
RiskScoreInputs ==
    {[n \in NodeIds |-> v] : v \in {0, 5000, 10000}}
    \cup {[n \in NodeIds |-> ((n - 1) % 3) * 5000]}

GraphState ==
    [nodes |-> gnodes, edges |-> gedges, node_features |-> nfeat,
     edge_features |-> efeat]

NoCall == [op |-> "none", arg |-> << >>, before |-> << >>, out |-> << >>]

RiskIdle ==
    /\ nfeat = {}
    /\ efeat = {}
    /\ rpc = "off"
    /\ rcalls = 0
    /\ rcall = NoCall

\* A SupplyChainGraph built by add_node for every node and add_edge for every
\* edge, and an engine that is not running.
RiskInit ==
    /\ gnodes \in InputNodeSets
    /\ gedges \in {E \in InputEdgeSets : E \subseteq gnodes \X gnodes}
    /\ \E r \in RiskScoreInputs :
          nx_risk = [n \in NodeIds |-> IF n \in gnodes THEN r[n] ELSE 0]
    /\ nf_crit = [n \in NodeIds |-> InitialCriticality(n)]
    /\ nfeat = gnodes
    /\ efeat = gedges
    /\ rpc = "ready"
    /\ rcalls = 0
    /\ rcall = NoCall
    /\ stream = << >>
    /\ rpos = 1
    /\ initial = << >>
    /\ pc = "off"
    /\ sim = [compromised |-> {}, secure |-> {}, affected |-> {},
              step_number |-> 0, simulation_time |-> 0, steps |-> << >>]
    /\ order = << >>
    /\ loc = EmptyLoc
    /\ step_result = NoStep
    /\ iterations = 0
    /\ results = << >>
    /\ mpc = "off"
    /\ mit = NoFrame
    /\ effectiveness = << >>

\* add_node, graph_engine.py lines 63-92 (metadata left at its default).
AddNode ==
    /\ rpc = "ready"
    /\ rcalls < MaxBuildCalls
    /\ \E n \in NodeIds :
       \E r \in {0, 10000} :
          /\ gnodes' = gnodes \cup {n}
          /\ nx_risk' = [nx_risk EXCEPT ![n] = r]
          /\ nf_crit' = [nf_crit EXCEPT ![n] = InitialCriticality(n)]
          /\ nfeat' = nfeat \cup {n}
          /\ rcall' = [op |-> "add_node", arg |-> n, before |-> GraphState,
                       out |-> "returned"]
    /\ rcalls' = rcalls + 1
    /\ UNCHANGED <<gedges, efeat, rpc>>
    /\ UNCHANGED <<engineRunVars, toolVars, agentVars, extVars>>

\* add_edge, graph_engine.py lines 94-122: nx.DiGraph.add_edge creates the end
\* points that are missing; no check is made and nothing is raised.
AddEdge ==
    /\ rpc = "ready"
    /\ rcalls < MaxBuildCalls
    /\ \E source \in NodeIds :
       \E target \in NodeIds \ {source} :
          /\ gnodes' = gnodes \cup {source, target}
          /\ gedges' = gedges \cup {<<source, target>>}
          /\ efeat' = efeat \cup {<<source, target>>}
          /\ rcall' = [op |-> "add_edge", arg |-> <<source, target>>,
                       before |-> GraphState, out |-> "returned"]
    /\ rcalls' = rcalls + 1
    /\ UNCHANGED <<nx_risk, nf_crit, nfeat, rpc>>
    /\ UNCHANGED <<engineRunVars, toolVars, agentVars, extVars>>

Metrics == {"betweenness_centrality", "closeness_centrality", "pagerank",
            "eigenvector_centrality"}

\* What the four networkx calls of lines 225-228 do: one of them may raise,
\* and the values of those that return are represented by one level.
NxOutcomes == [raises : {"none"} \cup Metrics, level : {Frac(1, 5), Frac(4, 5)}]

\* The outcomes that differ in the metrics returned: which of the calls raised
\* does not show in them.
MetricOutcomes == {nx \in NxOutcomes : nx.raises \in {"none", "pagerank"}}

\* graph.degree(node) of a DiGraph: in-degree plus out-degree.
Degree(n) == Cardinality({e \in gedges : e[1] = n}) + Cardinality({e \in gedges : e[2] = n})

DegreeCentrality(n) == Frac(Degree(n), Max2(1, Cardinality(gnodes) - 1))

\* Lines 229-234: the values the except clause gives to the four metrics.
FallbackMetric(metric) ==
    IF metric = "pagerank" THEN Frac(1, Cardinality(gnodes)) ELSE Frac(0, 1)

\* calculate_centrality_metrics, lines 221-246: one try block around the four
\* calls, so one failure replaces all four metrics.
CentralityMetrics(nx) ==
    [node \in gnodes |->
        [m \in Metrics \cup {"degree_centrality"} |->
            IF m = "degree_centrality" THEN DegreeCentrality(node)
            ELSE IF nx.raises = "none" THEN nx.level
            ELSE FallbackMetric(m)]]

CalculateCentralityMetrics ==
    /\ rpc = "ready"
    /\ \E nx \in NxOutcomes :
          rcall' = [op |-> "centrality", arg |-> nx, before |-> GraphState,
                    out |-> CentralityMetrics(nx)]
    /\ rpc' = "done"
    /\ UNCHANGED <<gnodes, gedges, nx_risk, nf_crit, nfeat, efeat, rcalls>>
    /\ UNCHANGED <<engineRunVars, toolVars, agentVars, extVars>>

\* node_features.get(node_id, <tier 3>).tier
TierOfNode(n) == IF n \in nfeat THEN TierOf(n) ELSE 3

\* _calculate_base_risk, lines 166-193, for a node without 'lastAudit',
\* 'certifications' and 'contractType'.
BaseRisk(n) ==
    LET risk_score == IF n \in nfeat THEN Frac(nx_risk[n], 10000) ELSE Frac(0, 1)
    IN  FracMin(Frac(1, 1), FracAdd(risk_score, Frac(15, 100)))

\* graph.to_undirected(): its edges as two-element sets.
UndirectedEdges == {{e[1], e[2]} : e \in gedges}

RECURSIVE Connected(_, _, _)
\* The nodes of N joined to a node of S by edges of E.
Connected(N, E, S) ==
    LET more == S \cup {n \in N : \E m \in S : {n, m} \in E}
    IN  IF more = S THEN S ELSE Connected(N, E, more)

NumComponents(N, E) == Cardinality({Connected(N, E, {n}) : n \in N})

\* nx.articulation_points of the undirected graph.
ArticulationPoints ==
    LET whole == NumComponents(gnodes, UndirectedEdges)
    IN  {v \in gnodes :
            NumComponents(gnodes \ {v}, {e \in UndirectedEdges : v \notin e})
                > whole}

\* The end points of nx.bridges of the undirected graph.
BridgeNodes ==
    LET whole == NumComponents(gnodes, UndirectedEdges)
    IN  UNION {e \in UndirectedEdges :
                  NumComponents(gnodes, UndirectedEdges \ {e}) > whole}

\* identify_structural_vulnerabilities, lines 248-282: the two lists the
\* calculator reads.
StructuralVulnerabilities ==
    [single_points_of_failure |-> ArticulationPoints,
     bridge_nodes |-> BridgeNodes]

\* _calculate_structural_risk, lines 195-219; vulnerabilities is what
\* identify_structural_vulnerabilities returns.
StructuralRisk(n, vulnerabilities) ==
    LET max_degree == Max2(1, Cardinality(gnodes) - 1)
        in_degree_risk == FracMul(Frac(InDegree(n), max_degree), Frac(6, 10))
        out_degree_risk ==
            FracMul(Frac(Cardinality({e \in gedges : e[1] = n}), max_degree),
                    Frac(4, 10))
        degree_risk == FracAdd(in_degree_risk, out_degree_risk)
        spof == IF n \in vulnerabilities.single_points_of_failure
                THEN FracMin(Frac(1, 1), FracAdd(degree_risk, Frac(3, 10)))
                ELSE degree_risk
    IN  IF n \in vulnerabilities.bridge_nodes
        THEN FracMin(Frac(1, 1), FracAdd(spof, Frac(2, 10)))
        ELSE spof

\* _calculate_cascade_amplification_fallback, lines 221-240.
FallbackAmplification(n) ==
    LET reachable_nodes ==
            Cardinality(Descendants([nodes |-> gnodes, edges |-> gedges], n))
        total_nodes == Cardinality(gnodes)
    IN  IF total_nodes <= 1 THEN Frac(0, 1)
        ELSE FracMin(Frac(1, 1),
                     FracMul(Frac(reachable_nodes, total_nodes - 1),
                             Frac(4 - TierOfNode(n), 3)))

\* How the predictor answers: not configured, raising, scoring every node,
\* or scoring some of the nodes.
PredictorModes == {"absent", "raises", "scores", "partial"}

\* The dict predict_cascade_amplification returns: scores in [0,1] (the
\* Sigmoid of gnn_model.py lines 105-111).
PredictedAmplification(mode) ==
    [n \in {x \in gnodes : mode = "scores" \/ (mode = "partial" /\ x % 2 = 1)} |->
        Frac(n % 3, 2)]

\* api/main.py lines 196-204: gnn_predictions is None when the predictor is
\* absent or raises, so gnn_amplification is {}.
GnnAmplification(mode) ==
    IF mode \in {"absent", "raises"} THEN << >> ELSE PredictedAmplification(mode)

\* Line 127: gnn_amplification.get(node_id, <fallback>).
CascadeAmplification(gnn_amplification, n) ==
    IF n \in DOMAIN gnn_amplification THEN gnn_amplification[n]
    ELSE FallbackAmplification(n)

\* _calculate_centrality_risk, lines 242-260.
CentralityRisk(cm) ==
    FracAdd(FracAdd(FracMul(cm["betweenness_centrality"], Frac(3, 10)),
                    FracMul(cm["closeness_centrality"], Frac(2, 10))),
            FracAdd(FracMul(cm["pagerank"], Frac(3, 10)),
                    FracMul(cm["degree_centrality"], Frac(2, 10))))

\* Lines 132-137: the weighted sum.
WeightedRisk(base, structural, cascade, centrality) ==
    FracAdd(FracAdd(FracMul(base, Frac(25, 100)), FracMul(structural, Frac(30, 100))),
            FracAdd(FracMul(cascade, Frac(25, 100)), FracMul(centrality, Frac(20, 100))))

\* tier_multipliers.get(tier, 1.0)
TierMultiplier(tier) ==
    IF tier = 1 THEN Frac(3, 1) ELSE IF tier = 2 THEN Frac(2, 1) ELSE Frac(1, 1)

\* The product without the cap of line 142.
Uncapped(weighted, tier) == FracMul(weighted, TierMultiplier(tier))

\* Line 142: min(1.0, combined_risk * tier_multiplier).
Capped(weighted, tier) == FracMin(Frac(1, 1), FracMul(weighted, TierMultiplier(tier)))

\* The NodeRiskProfile of one node, lines 119-162.
NodeRiskProfile(n, centrality_metrics, gnn_amplification, vulnerabilities) ==
    LET base_risk == BaseRisk(n)
        structural_risk == StructuralRisk(n, vulnerabilities)
        cascade_amplification == CascadeAmplification(gnn_amplification, n)
        centrality_risk == CentralityRisk(centrality_metrics[n])
    IN  [base_risk |-> base_risk,
         structural_risk |-> structural_risk,
         cascade_amplification |-> cascade_amplification,
         centrality_risk |-> centrality_risk,
         combined_risk |->
            Capped(WeightedRisk(base_risk, structural_risk,
                                cascade_amplification, centrality_risk),
                   TierOfNode(n))]

\* calculate_node_risk_profiles, lines 104-164.
NodeRiskProfiles(nx, mode) ==
    LET centrality_metrics == CentralityMetrics(nx)
        gnn_amplification == GnnAmplification(mode)
        vulnerabilities == StructuralVulnerabilities
    IN  [n \in gnodes |->
            NodeRiskProfile(n, centrality_metrics, gnn_amplification, vulnerabilities)]

CalculateNodeRiskProfiles ==
    /\ rpc = "ready"
    /\ \E nx \in MetricOutcomes :
       \E mode \in PredictorModes :
          rcall' = [op |-> "profiles", arg |-> [nx |-> nx, predictor |-> mode],
                    before |-> GraphState,
                    out |-> [raised |-> FALSE,
                             node_risks |-> NodeRiskProfiles(nx, mode)]]
    /\ rpc' = "done"
    /\ UNCHANGED <<gnodes, gedges, nx_risk, nf_crit, nfeat, efeat, rcalls>>
    /\ UNCHANGED <<engineRunVars, toolVars, agentVars, extVars>>

\* _calculate_redundancy_score, lines 409-424.
RedundancyScore ==
    LET num_edges == Cardinality(gedges)
        num_nodes == Cardinality(gnodes)
        min_edges_for_connectivity == num_nodes - 1
    IN  IF num_nodes <= 1 THEN Frac(1, 1)
        ELSE FracMin(Frac(1, 1),
                     Frac(num_edges - min_edges_for_connectivity,
                          Max2(1, min_edges_for_connectivity)))

\* _calculate_connectivity_score, lines 446-463.
ConnectivityScore ==
    LET num_nodes == Cardinality(gnodes)
    IN  IF num_nodes <= 1 THEN Frac(1, 1)
        ELSE FracMin(Frac(1, 1),
                     Frac(Cardinality(gedges) * 10,
                          Max2(1, num_nodes * (num_nodes - 1))))

RECURSIVE FloorSqrt(_, _, _)
\* The integer square root of x, sought between lo and hi.
FloorSqrt(x, lo, hi) ==
    IF lo >= hi THEN lo
    ELSE LET mid == (lo + hi + 1) \div 2
         IN  IF mid * mid <= x THEN FloorSqrt(x, mid, hi)
             ELSE FloorSqrt(x, lo, mid - 1)

RECURSIVE SumOver(_, _)
SumOver(f, S) ==
    IF S = {} THEN 0
    ELSE LET x == CHOOSE y \in S : TRUE
         IN  f[x] + SumOver(f, S \ {x})

\* _calculate_risk_distribution_score, lines 426-444, in 1/10000:
\* 1 / (1 + std / mean) = mean / (mean + std).
RiskDistributionScore(node_risks) ==
    LET N == DOMAIN node_risks
        value == [n \in N |-> Fixed(node_risks[n].combined_risk)]
        mean_risk == SumOver(value, N) \div Cardinality(N)
        square == [n \in N |-> (value[n] - mean_risk) * (value[n] - mean_risk)]
        std_risk == FloorSqrt(SumOver(square, N) \div Cardinality(N), 0, 10000)
    IN  IF \A n \in N : value[n] = 0 THEN 10000
        ELSE (mean_risk * 10000) \div (mean_risk + std_risk)

\* -p * log2(p) in 1/10000 for p = count / total.
EntropyTerm(count, total) ==
    LET p == Frac(count, total)
    IN  CASE p = Frac(1, 1) -> 0
          [] p = Frac(1, 2) -> 5000
          [] p = Frac(1, 3) -> 5283
          [] p = Frac(2, 3) -> 3900
          [] p = Frac(1, 4) -> 5000
          [] p = Frac(3, 4) -> 3113
          [] p = Frac(1, 5) -> 4644
          [] p = Frac(2, 5) -> 5288
          [] p = Frac(3, 5) -> 4422
          [] p = Frac(4, 5) -> 2575

\* _calculate_tier_diversity_score, lines 465-492, in 1/10000; log2(3) is
\* 15850 in 1/10000.
TierDiversityScore ==
    LET count == [t \in 1..3 |-> Cardinality({n \in gnodes : TierOfNode(n) = t})]
        term == [t \in 1..3 |->
                    IF count[t] > 0 THEN EntropyTerm(count[t], Cardinality(gnodes))
                    ELSE 0]
    IN  ((term[1] + term[2] + term[3]) * 10000) \div 15850

\* _calculate_resilience_score, lines 382-407, in 1/10000.
ResilienceScore(node_risks) ==
    (Fixed(RedundancyScore) + RiskDistributionScore(node_risks)
        + Fixed(ConnectivityScore) + TierDiversityScore) \div 4

\* calculate_comprehensive_risk, lines 59-102: of the RiskMetrics it returns,
\* the resilience score with its redundancy component, and the profiles it
\* was computed from.
CalculateComprehensiveRisk ==
    /\ rpc = "ready"
    /\ \E nx \in MetricOutcomes :
       \E mode \in PredictorModes :
          LET node_risks == NodeRiskProfiles(nx, mode)
          IN  rcall' = [op |-> "comprehensive",
                        arg |-> [nx |-> nx, predictor |-> mode],
                        before |-> GraphState,
                        out |-> [raised |-> FALSE,
                                 node_risks |-> node_risks,
                                 redundancy_score |-> RedundancyScore,
                                 resilience_score |-> ResilienceScore(node_risks)]]
    /\ rpc' = "done"
    /\ UNCHANGED <<gnodes, gedges, nx_risk, nf_crit, nfeat, efeat, rcalls>>
    /\ UNCHANGED <<engineRunVars, toolVars, agentVars, extVars>>

\* An engine that applies the amplification whatever the predictor does.
AlwaysAmplified(gnn, source) == Frac(3, 2)

\* simulation_engine.py lines 292-298: the factor (1 + source_amplification),
\* applied when the predictor is configured and answers.
AmplificationFactor(gnn, source) ==
    IF gnn \in {"absent", "raises"} THEN Frac(1, 1)
    ELSE LET predictions == PredictedAmplification(gnn)
         IN  FracAdd(Frac(1, 1),
                     IF source \in DOMAIN predictions THEN predictions[source]
                     ELSE Frac(1, 2))

\* _calculate_propagation_parameters, lines 266-304, of an engine whose
\* predictor answers as gnn says.
PropagationParametersWith(gnn, source, target) ==
    LET base == [n |-> 3 * StrengthOf(source, target) * (200 - nf_crit[target]),
                 d |-> 10000,
                 delay |-> base_propagation_delay * 10000]
        r == ApplyRules(1, source, target, base)
        f == AmplificationFactor(gnn, source)
        p == [n |-> r.n * f.n, d |-> r.d * f.d]
        clamped == IF p.n > p.d THEN [n |-> 1, d |-> 1] ELSE p
    IN  [raised |-> FALSE, n |-> clamped.n, d |-> clamped.d,
         delay |-> Max2(50 * 10000, r.delay)]

CalculatePropagationParameters ==
    /\ rpc = "ready"
    /\ \E gnn \in PredictorModes :
       \E e \in gedges :
          rcall' = [op |-> "parameters", arg |-> [gnn |-> gnn, edge |-> e],
                    before |-> GraphState,
                    out |-> PropagationParametersWith(gnn, e[1], e[2])]
    /\ rpc' = "done"
    /\ UNCHANGED <<gnodes, gedges, nx_risk, nf_crit, nfeat, efeat, rcalls>>
    /\ UNCHANGED <<engineRunVars, toolVars, agentVars, extVars>>

(***************************************************************************)
(* calculate_mitigation_impact of backend/core/mitigation_engine.py and of *)
(* backend/core/risk_calculator.py, on the graph of Part IV.               *)
(***************************************************************************)

\* mitigation_targets: every list of node ids up to MaxTargets long, repeats
\* included; an id may be unknown to the graph.
TargetLists == UNION {[1..k -> NodeIds] : k \in 0..MaxTargets}

\* Lines 209-213 (risk_calculator.py 660-664): for each target that is a node,
\* original_risks[node_id] = risk_score and risk_score = original * 0.3.
RECURSIVE ReduceRisks(_, _, _)
ReduceRisks(risk, original_risks, targets) ==
    IF targets = << >> THEN [risk |-> risk, original_risks |-> original_risks]
    ELSE LET node_id == Head(targets)
         IN  IF node_id \in gnodes
             THEN ReduceRisks([risk EXCEPT ![node_id] = (risk[node_id] * 3) \div 10],
                              [n \in DOMAIN original_risks \cup {node_id} |->
                                  IF n = node_id THEN risk[node_id] ELSE original_risks[n]],
                              Tail(targets))
             ELSE ReduceRisks(risk, original_risks, Tail(targets))

\* Lines 219-220 (risk_calculator.py 670-671): the stored values are put back.
RestoreRisks(risk, original_risks) ==
    [n \in DOMAIN risk |-> IF n \in DOMAIN original_risks THEN original_risks[n] ELSE risk[n]]

\* MitigationEngine.calculate_mitigation_impact, lines 201-236, of an engine
\* with a risk calculator, and calculate_mitigation_impact of
\* risk_calculator.py, lines 648-681: the second calculate_comprehensive_risk
\* returns or raises.  The engine's method catches what is raised and returns
\* the fallback; the function of risk_calculator.py lets it through.
CalculateMitigationImpact ==
    /\ rpc = "ready"
    /\ \E targets \in TargetLists :
       \E second \in {"returns", "raises"} :
       \E impl \in {"mitigation_engine", "risk_calculator"} :
          LET reduced == ReduceRisks(nx_risk, << >>, targets)
          IN  /\ nx_risk' = IF second = "returns"
                            THEN RestoreRisks(reduced.risk, reduced.original_risks)
                            ELSE reduced.risk
              /\ rcall' = [op |-> "mitigation_impact",
                           arg |-> [targets |-> targets, second |-> second, impl |-> impl],
                           before |-> GraphState,
                           out |-> [raised |-> second = "raises" /\ impl = "risk_calculator",
                                    fallback |-> second = "raises" /\ impl = "mitigation_engine",
                                    risk_before |-> nx_risk]]
    /\ rpc' = "done"
    /\ UNCHANGED <<gnodes, gedges, nf_crit, nfeat, efeat, rcalls>>
    /\ UNCHANGED <<engineRunVars, toolVars, agentVars, extVars>>

RiskNext ==
    \/ AddNode
    \/ AddEdge
    \/ CalculateCentralityMetrics
    \/ CalculateNodeRiskProfiles
    \/ CalculateComprehensiveRisk
    \/ CalculatePropagationParameters
    \/ CalculateMitigationImpact

(***************************************************************************)
(* Part V.  A second thread that calls run_simulation on the engine while  *)
(* simulate_mitigation_effectiveness is under way.  Of the concurrent call *)
(* the reads of self.graph are modelled: this is what the statement about  *)
(* it concerns.  Its writes of self.simulation_state are those of the run  *)
(* actions of Part I.                                                      *)
(***************************************************************************)

NoConcurrentRun == [pc |-> "none", reads |-> << >>]

\* run_simulation, lines 140-166, called by another thread while
\* simulate_mitigation_effectiveness is between its call and its return.
ConcurrentCall ==
    /\ conc.pc = "none"
    /\ mpc \in {"baseline", "apply", "mitigated"}
    /\ conc' = [pc |-> "running", reads |-> << >>]
    /\ UNCHANGED <<engineVars, toolVars, agentVars, riskVars>>
    /\ UNCHANGED <<pipe, casc, batch>>

\* _simulate_step, lines 208-225, of the concurrent call: it reads
\* self.graph, whatever object and content that is at this moment.
ConcurrentRead ==
    /\ conc.pc = "running"
    /\ Len(conc.reads) < MaxConcurrentReads
    /\ conc' = [conc EXCEPT !.reads = Append(@, GraphSnapshot)]
    /\ UNCHANGED <<engineVars, toolVars, agentVars, riskVars>>
    /\ UNCHANGED <<pipe, casc, batch>>

\* The concurrent call returns, after its steps.
ConcurrentReturn ==
    /\ conc.pc = "running"
    /\ Len(conc.reads) = MaxConcurrentReads
    /\ conc' = [conc EXCEPT !.pc = "returned"]
    /\ UNCHANGED <<engineVars, toolVars, agentVars, riskVars>>
    /\ UNCHANGED <<pipe, casc, batch>>

ConcNext ==
    \/ BeginStep
    \/ ProcessNode
    \/ ProcessUnknownNode
    \/ FinishStep
    \/ FinishStepNoNodes
    \/ CheckStep
    \/ StartMitigation
    \/ ReturnBaseline
    \/ ApplyMitigations
    \/ FinishMitigation
    \/ ConcurrentCall
    \/ ConcurrentRead
    \/ ConcurrentReturn

ConcSpecInit ==
    /\ EngineInit
    /\ Len(initial) <= MaxConcurrentInit
    /\ ToolIdle
    /\ AgentIdle
    /\ RiskIdle
    /\ conc = NoConcurrentRun
    /\ PipeIdle
    /\ CascIdle
    /\ BatchIdle

\* The engine with two threads: simulate_mitigation_effectiveness and a
\* concurrent run_simulation.
ConcSpec == ConcSpecInit /\ [][ConcNext]_vars

(***************************************************************************)
(* OrchestratorAgent.run of v1/agents/orchestrator/agent.py, which is also *)
(* that of agents-v2/agents/orchestrator/agent.py.  The three agents are   *)
(* its environment: each call of an agent's run returns a dict or raises.  *)
(***************************************************************************)

\* Python's None, where a dict or a list may stand.
None == [none |-> TRUE]

PipeAgents == <<"SimulationAgent", "ImpactReasoningAgent", "MitigationAgent">>

\* The callers' inputs: something that is no OrchestratorInput, one with an
\* empty vendor_id, and valid ones (max_depth is validated by the schema).
PipeInputs ==
    {[kind |-> "other", vendor_id |-> "", max_depth |-> 0]}
    \cup [kind : {"OrchestratorInput"}, vendor_id : {"", "V1"}, max_depth : 1..MaxPipeDepth]

\* What SimulationAgent.run may return: simulate_propagation's dict, of
\* which the orchestrator reads two entries.
SimulationResults ==
    [propagation_paths : 0..MaxPipeItems, total_affected_nodes : 0..MaxPipeItems]

\* impact_result.get('explanations', []) and
\* mit_result.get('ranked_mitigations', []), as the number of their items.
ItemLists == [items : 0..MaxPipeItems]

\* str(e) of the exceptions an agent may raise.
AgentErrors == {"ValueError", "RuntimeError"}

PipeInit ==
    \E input \in PipeInputs :
       pipe = [pc |-> "called", input |-> input, execution_trace |-> << >>,
               ran |-> << >>, raised |-> "none",
               simulation_results |-> None, impact_explanations |-> None,
               mitigation_recommendations |-> None, output |-> None]

\* A failure output that drops what the agents before the failure returned.
FailureWithoutResults(p, agent_name, e) ==
    [success |-> FALSE,
     execution_trace |-> p.execution_trace,
     simulation_results |-> None,
     impact_explanations |-> None,
     mitigation_recommendations |-> None,
     error_message |-> <<agent_name, " failed: ", e>>]

\* OrchestratorOutput(success=False, ...) of lines 140-144, 170-175,
\* 203-209 and 223-227: the trace so far, the results so far, and
\* f"{agent_name} failed: {str(e)}".
FailureOutput(p, agent_name, e) ==
    [success |-> FALSE,
     execution_trace |-> p.execution_trace,
     simulation_results |-> p.simulation_results,
     impact_explanations |-> p.impact_explanations,
     mitigation_recommendations |-> None,
     error_message |-> <<agent_name, " failed: ", e>>]

\* execution_trace.append(ExecutionTrace(agent_name=...)), lines 127-132,
\* 159-164 and 192-197.
PipeTraceAppend(trace, agent_name) == Append(trace, [agent_name |-> agent_name])

\* Lines 99-108: the input validation passes.
ValidateInput ==
    /\ pipe.pc = "called"
    /\ pipe.input.kind = "OrchestratorInput"
    /\ pipe.input.vendor_id # ""
    /\ pipe' = [pipe EXCEPT !.pc = "step1"]
    /\ UNCHANGED <<engineVars, toolVars, agentVars, riskVars>>
    /\ UNCHANGED <<conc, casc, batch>>

\* Lines 99-105 raise TypeError or ValueError, and lines 220-227 return.
RejectInput ==
    /\ pipe.pc = "called"
    /\ pipe.input.kind # "OrchestratorInput" \/ pipe.input.vendor_id = ""
    /\ pipe' = [pipe EXCEPT
                   !.pc = "returned",
                   !.output = FailureOutput(pipe, "OrchestratorAgent",
                                  IF pipe.input.kind # "OrchestratorInput"
                                  THEN "TypeError" ELSE "ValueError")]
    /\ UNCHANGED <<engineVars, toolVars, agentVars, riskVars>>
    /\ UNCHANGED <<conc, casc, batch>>

\* Lines 111-135 (step 1): SimulationAgent.run returns.
SimulationStepReturns ==
    /\ pipe.pc = "step1"
    /\ \E sim_result \in SimulationResults :
          pipe' = [pipe EXCEPT
                      !.pc = "step2",
                      !.ran = Append(@, "SimulationAgent"),
                      !.execution_trace = PipeTraceAppend(@, "SimulationAgent"),
                      !.simulation_results = sim_result]
    /\ UNCHANGED <<engineVars, toolVars, agentVars, riskVars>>
    /\ UNCHANGED <<conc, casc, batch>>

\* Lines 111-124 and 137-144: SimulationAgent.run raises.
SimulationStepRaises ==
    /\ pipe.pc = "step1"
    /\ \E e \in AgentErrors :
          pipe' = [pipe EXCEPT
                      !.pc = "returned",
                      !.ran = Append(@, "SimulationAgent"),
                      !.raised = "SimulationAgent",
                      !.output = FailureOutput(pipe, "SimulationAgent", e)]
    /\ UNCHANGED <<engineVars, toolVars, agentVars, riskVars>>
    /\ UNCHANGED <<conc, casc, batch>>

\* Lines 146-167 (step 2): ImpactReasoningAgent.run returns.
ImpactStepReturns ==
    /\ pipe.pc = "step2"
    /\ \E explanations \in ItemLists :
          pipe' = [pipe EXCEPT
                      !.pc = "step3",
                      !.ran = Append(@, "ImpactReasoningAgent"),
                      !.execution_trace = PipeTraceAppend(@, "ImpactReasoningAgent"),
                      !.impact_explanations = explanations]
    /\ UNCHANGED <<engineVars, toolVars, agentVars, riskVars>>
    /\ UNCHANGED <<conc, casc, batch>>

\* Lines 146-157 and 169-176: ImpactReasoningAgent.run raises.
ImpactStepRaises ==
    /\ pipe.pc = "step2"
    /\ \E e \in AgentErrors :
          pipe' = [pipe EXCEPT
                      !.pc = "returned",
                      !.ran = Append(@, "ImpactReasoningAgent"),
                      !.raised = "ImpactReasoningAgent",
                      !.output = FailureOutput(pipe, "ImpactReasoningAgent", e)]
    /\ UNCHANGED <<engineVars, toolVars, agentVars, riskVars>>
    /\ UNCHANGED <<conc, casc, batch>>

\* Lines 178-200 and 212-219 (step 3): MitigationAgent.run returns and the
\* successful output is returned.
MitigationStepReturns ==
    /\ pipe.pc = "step3"
    /\ \E ranked \in ItemLists :
          LET trace == PipeTraceAppend(pipe.execution_trace, "MitigationAgent")
          IN  pipe' = [pipe EXCEPT
                          !.pc = "returned",
                          !.ran = Append(@, "MitigationAgent"),
                          !.execution_trace = trace,
                          !.mitigation_recommendations = ranked,
                          !.output = [success |-> TRUE,
                                      execution_trace |-> trace,
                                      simulation_results |-> pipe.simulation_results,
                                      impact_explanations |-> pipe.impact_explanations,
                                      mitigation_recommendations |-> ranked,
                                      error_message |-> None]]
    /\ UNCHANGED <<engineVars, toolVars, agentVars, riskVars>>
    /\ UNCHANGED <<conc, casc, batch>>

\* Lines 178-190 and 202-210: MitigationAgent.run raises.
MitigationStepRaises ==
    /\ pipe.pc = "step3"
    /\ \E e \in AgentErrors :
          pipe' = [pipe EXCEPT
                      !.pc = "returned",
                      !.ran = Append(@, "MitigationAgent"),
                      !.raised = "MitigationAgent",
                      !.output = FailureOutput(pipe, "MitigationAgent", e)]
    /\ UNCHANGED <<engineVars, toolVars, agentVars, riskVars>>
    /\ UNCHANGED <<conc, casc, batch>>

PipeNext ==
    \/ ValidateInput
    \/ RejectInput
    \/ SimulationStepReturns
    \/ SimulationStepRaises
    \/ ImpactStepReturns
    \/ ImpactStepRaises
    \/ MitigationStepReturns
    \/ MitigationStepRaises

PipeSpecInit ==
    /\ PipeInit
    /\ EngineIdle
    /\ ToolIdle
    /\ AgentIdle
    /\ RiskIdle
    /\ ConcIdle
    /\ CascIdle
    /\ BatchIdle

\* The orchestrator of v1 and agents-v2.
PipeSpec == PipeSpecInit /\ [][PipeNext]_vars

(***************************************************************************)
(* SupplyChainGraph.simulate_cascade_failure, backend/core/graph_engine.py *)
(* lines 284-336.                                                          *)
(***************************************************************************)

CascadeIds == 1..CascadeNodes

\* The graphs: the chain 1 -> 2 -> ... -> CascadeNodes and some of a few
\* further edges; some edges are weak (strength 0.2), the others strong (0.8).
\* Every node has the criticality_score 50.
CascadeChain == {<<i, i + 1>> : i \in 1..(CascadeNodes - 1)}

CascadeExtraEdges == {<<1, 3>>, <<3, 1>>, <<2, 4>>}

CascadeWeakSets == {{}, {<<2, 3>>}, {<<CascadeNodes - 1, CascadeNodes>>}}

\* initial_compromised: lists of distinct nodes of the graph.
CascadeInitialLists ==
    {q \in UNION {[1..k -> CascadeIds] : k \in 0..MaxCascadeInit} :
        Cardinality(Range(q)) = Len(q)}

CascInit ==
    \E extra \in SUBSET CascadeExtraEdges :
    \E weak \in CascadeWeakSets :
    \E initial_compromised \in CascadeInitialLists :
       casc = [pc |-> "loop",
               edges |-> CascadeChain \cup extra,
               weak |-> weak,
               initial_compromised |-> initial_compromised,
               compromised |-> Range(initial_compromised),
               propagating |-> {},
               waves |-> << >>,
               current_wave |-> initial_compromised,
               wave_number |-> 0,
               result |-> << >>]

\* Lines 306-312: propagation_prob = edge_strength * (1 - criticality / 100)
\* against propagation_threshold = 0.3, with the strength in tenths.
CascadePropagates(c, node, neighbor) ==
    LET edge_strength == IF <<node, neighbor>> \in c.weak THEN 2 ELSE 8
        criticality_score == 50
    IN  edge_strength * (100 - criticality_score) >= 3 * 100

\* Lines 303-312 for one wave: the successors of the wave's nodes that are
\* neither compromised nor propagating and that the failure propagates to.
\* A neighbour reached twice in the wave is appended once (line 305).
NextWave(c) ==
    {e[2] : e \in {x \in c.edges :
                      /\ x[1] \in Range(c.current_wave)
                      /\ x[2] \notin c.compromised
                      /\ x[2] \notin c.propagating
                      /\ CascadePropagates(c, x[1], x[2])}}

\* Line 295: while current_wave and wave_number < 10.
WaveLoopGoesOn(c) == c.current_wave # << >> /\ c.wave_number < max_waves

\* Lines 295-317: one iteration of the loop.
CascadeWave ==
    /\ casc.pc = "loop"
    /\ WaveLoopGoesOn(casc)
    /\ LET next_wave == NextWave(casc)
       IN  casc' = [casc EXCEPT
                       !.waves = Append(@, [wave |-> casc.wave_number,
                                            nodes |-> casc.current_wave,
                                            timestamp |-> casc.wave_number * 300]),
                       !.propagating = @ \cup next_wave,
                       !.compromised = @ \cup casc.propagating \cup next_wave,
                       !.current_wave = SeqOfSet(next_wave),
                       !.wave_number = @ + 1]
    /\ UNCHANGED <<engineVars, toolVars, agentVars, riskVars>>
    /\ UNCHANGED <<conc, pipe, batch>>

\* Lines 319-331: the loop is left and the result is returned.
CascadeReturn ==
    /\ casc.pc = "loop"
    /\ ~WaveLoopGoesOn(casc)
    /\ casc' = [casc EXCEPT
                   !.pc = "returned",
                   !.result = [initial_compromised |-> casc.initial_compromised,
                               total_affected |-> Cardinality(casc.compromised),
                               compromised_nodes |-> casc.compromised,
                               propagation_waves |-> casc.waves,
                               blast_radius |-> Cardinality(casc.compromised)
                                                - Len(casc.initial_compromised),
                               cascade_depth |-> Len(casc.waves)]]
    /\ UNCHANGED <<engineVars, toolVars, agentVars, riskVars>>
    /\ UNCHANGED <<conc, pipe, batch>>

CascNext ==
    \/ CascadeWave
    \/ CascadeReturn

CascSpecInit ==
    /\ CascInit
    /\ EngineIdle
    /\ ToolIdle
    /\ AgentIdle
    /\ RiskIdle
    /\ ConcIdle
    /\ PipeIdle
    /\ BatchIdle

\* simulate_cascade_failure.
CascSpec == CascSpecInit /\ [][CascNext]_vars

(***************************************************************************)
(* BatchProcessor, backend/core/performance.py lines 488-558: a thread     *)
(* that calls add_to_batch and force_flush, and the timer thread that runs *)
(* _flush_all_batches.  self.lock is a threading.Lock: it is not           *)
(* reentrant, and acquiring it blocks while any thread holds it.           *)
(***************************************************************************)

BatchTypes == {"a", "b"}

BatchThreads == {"caller", "timer"}

\* The batch_type argument of force_flush: a type, or None.
FlushArguments == BatchTypes \cup {"None"}

BatchInit ==
    \E processors \in SUBSET BatchTypes :
       batch = [pc |-> "on",
                lock |-> "free",
                batches |-> [ty \in BatchTypes |-> 0],
                processors |-> processors,
                flushes |-> 0,
                thread |-> [t \in BatchThreads |-> [at |-> "idle", arg |-> "None"]]]

\* _flush_batch, lines 518-535, on the lengths of the batches: an empty
\* batch and a type without a processor are left as they are; otherwise the
\* batch is cleared and handed to its processor, whose failure is caught.
FlushBatch(batches, processors, batch_type) ==
    IF batches[batch_type] = 0 \/ batch_type \notin processors THEN batches
    ELSE [batches EXCEPT ![batch_type] = 0]

\* Lines 541-542: _flush_batch for every key of self.batches.
FlushAll(batches, processors) ==
    [ty \in BatchTypes |-> FlushBatch(batches, processors, ty)[ty]]

\* add_to_batch(batch_type, item) is called: line 511 waits for the lock.
CallAddToBatch ==
    /\ batch.pc = "on"
    /\ batch.thread["caller"].at = "idle"
    /\ \E ty \in BatchTypes :
          /\ batch.batches[ty] < MaxBatchItems
          /\ batch' = [batch EXCEPT !.thread["caller"] = [at |-> "add_acquire", arg |-> ty]]
    /\ UNCHANGED <<engineVars, toolVars, agentVars, riskVars>>
    /\ UNCHANGED <<conc, pipe, casc>>

\* force_flush(batch_type) is called: line 554 waits for the lock.
CallForceFlush ==
    /\ batch.pc = "on"
    /\ batch.thread["caller"].at = "idle"
    /\ batch.flushes < MaxFlushes
    /\ \E arg \in FlushArguments :
          batch' = [batch EXCEPT !.thread["caller"] = [at |-> "force_acquire", arg |-> arg],
                                 !.flushes = @ + 1]
    /\ UNCHANGED <<engineVars, toolVars, agentVars, riskVars>>
    /\ UNCHANGED <<conc, pipe, casc>>

\* The flush timer of lines 500-502 and 547-549 fires: the timer thread
\* calls _flush_all_batches, whose line 540 waits for the lock.
TimerFires ==
    /\ batch.pc = "on"
    /\ batch.thread["timer"].at = "idle"
    /\ batch.flushes < MaxFlushes
    /\ batch' = [batch EXCEPT !.thread["timer"] = [at |-> "flush_all_acquire", arg |-> "None"],
                              !.flushes = @ + 1]
    /\ UNCHANGED <<engineVars, toolVars, agentVars, riskVars>>
    /\ UNCHANGED <<conc, pipe, casc>>

\* with self.lock: the thread gets the lock when no thread holds it; the
\* thread that holds it is no exception.
AcquireLock ==
    /\ batch.pc = "on"
    /\ batch.lock = "free"
    /\ \E t \in BatchThreads :
          /\ batch.thread[t].at \in {"add_acquire", "force_acquire", "flush_all_acquire"}
          /\ batch' = [batch EXCEPT
                          !.lock = t,
                          !.thread[t].at =
                              CASE @ = "add_acquire" -> "add_body"
                                [] @ = "force_acquire" -> "force_body"
                                [] OTHER -> "flush_all_body"]
    /\ UNCHANGED <<engineVars, toolVars, agentVars, riskVars>>
    /\ UNCHANGED <<conc, pipe, casc>>

\* add_to_batch, lines 512-516, and the release of the lock.
AddToBatchBody ==
    /\ batch.pc = "on"
    /\ batch.thread["caller"].at = "add_body"
    /\ LET ty == batch.thread["caller"].arg
           added == [batch.batches EXCEPT ![ty] = @ + 1]
       IN  batch' = [batch EXCEPT
                        !.batches = IF added[ty] >= batch_size
                                    THEN FlushBatch(added, batch.processors, ty)
                                    ELSE added,
                        !.lock = "free",
                        !.thread["caller"] = [at |-> "idle", arg |-> "None"]]
    /\ UNCHANGED <<engineVars, toolVars, agentVars, riskVars>>
    /\ UNCHANGED <<conc, pipe, casc>>

\* force_flush, lines 555-556, with a batch_type: _flush_batch, and the
\* release of the lock.
ForceFlushOne ==
    /\ batch.pc = "on"
    /\ batch.thread["caller"].at = "force_body"
    /\ batch.thread["caller"].arg # "None"
    /\ batch' = [batch EXCEPT
                    !.batches = FlushBatch(@, batch.processors, batch.thread["caller"].arg),
                    !.lock = "free",
                    !.thread["caller"] = [at |-> "idle", arg |-> "None"]]
    /\ UNCHANGED <<engineVars, toolVars, agentVars, riskVars>>
    /\ UNCHANGED <<conc, pipe, casc>>

\* force_flush, lines 557-558, without a batch_type: _flush_all_batches is
\* called with the lock held, and its line 540 waits for the lock.
ForceFlushAll ==
    /\ batch.pc = "on"
    /\ batch.thread["caller"].at = "force_body"
    /\ batch.thread["caller"].arg = "None"
    /\ batch' = [batch EXCEPT !.thread["caller"].at = "flush_all_acquire"]
    /\ UNCHANGED <<engineVars, toolVars, agentVars, riskVars>>
    /\ UNCHANGED <<conc, pipe, casc>>

\* _flush_all_batches, lines 540-549, once it has the lock: every batch is
\* flushed, the lock is released and the next timer is started.
FlushAllBody ==
    /\ batch.pc = "on"
    /\ \E t \in BatchThreads :
          /\ batch.thread[t].at = "flush_all_body"
          /\ batch' = [batch EXCEPT
                          !.batches = FlushAll(@, batch.processors),
                          !.lock = "free",
                          !.thread[t] = [at |-> "idle", arg |-> "None"]]
    /\ UNCHANGED <<engineVars, toolVars, agentVars, riskVars>>
    /\ UNCHANGED <<conc, pipe, casc>>

BatchNext ==
    \/ CallAddToBatch
    \/ CallForceFlush
    \/ TimerFires
    \/ AcquireLock
    \/ AddToBatchBody
    \/ ForceFlushOne
    \/ ForceFlushAll
    \/ FlushAllBody

BatchSpecInit ==
    /\ BatchInit
    /\ EngineIdle
    /\ ToolIdle
    /\ AgentIdle
    /\ RiskIdle
    /\ ConcIdle
    /\ PipeIdle
    /\ CascIdle

\* BatchProcessor with its caller and its timer thread.
BatchSpec == BatchSpecInit /\ [][BatchNext]_vars

Init ==
    /\ EngineInit
    /\ ToolIdle
    /\ AgentIdle
    /\ RiskIdle
    /\ ConcIdle
    /\ PipeIdle
    /\ CascIdle
    /\ BatchIdle

\* The simulation engine.
Spec == Init /\ [][EngineNext]_vars

ToolSpecInit ==
    /\ ToolInit
    /\ EngineIdle
    /\ AgentIdle
    /\ RiskIdle
    /\ ConcIdle
    /\ PipeIdle
    /\ CascIdle
    /\ BatchIdle

\* The simulation tool and the mitigation evaluators.
ToolSpec == ToolSpecInit /\ [][ToolNext]_vars

AgentSpecInit ==
    /\ AgentInit
    /\ EngineIdle
    /\ ToolIdle
    /\ RiskIdle
    /\ ConcIdle
    /\ PipeIdle
    /\ CascIdle
    /\ BatchIdle

\* The pipeline of SimulationAgent and MitigationAgent.
AgentSpec == AgentSpecInit /\ [][AgentNext]_vars

RiskSpecInit ==
    /\ RiskInit
    /\ ToolIdle
    /\ AgentIdle
    /\ ConcIdle
    /\ PipeIdle
    /\ CascIdle
    /\ BatchIdle

\* The graph, the risk calculator and the propagation parameters.
RiskSpec == RiskSpecInit /\ [][RiskNext]_vars

(***************************************************************************)
(* Claims about the simulation engine.                                     *)
(***************************************************************************)

\* C1: in run_simulation the compromised set never loses a node from one
\* wave to the next, it contains every node of initial_compromised throughout
\* the run, and every returned final_compromised contains every node of
\* initial_compromised.
C1_CompromisedMonotone ==
    /\ [](/\ pc # "idle" => Range(initial) \subseteq sim.compromised
          /\ \A i \in DOMAIN results :
                Range(results[i].initial_compromised)
                    \subseteq results[i].final_compromised)
    /\ [][pc # "idle" => sim.compromised \subseteq sim'.compromised]_vars

\* A run has returned in which a wave added nodes to a non-empty initial set.
C1_Witness ==
    \E i \in DOMAIN results :
        /\ results[i].initial_compromised # << >>
        /\ results[i].last_step.new_compromised # << >>
        /\ results[i].final_compromised # Range(results[i].initial_compromised)

\* C2: two runs of run_simulation on the same graph, with the same
\* initial_compromised and the same seeded random stream, give the same wave
\* (same newly compromised nodes, same propagation edges) and the same
\* final_compromised, whatever the iteration order of the compromised set.
C2_SameSeedSameResult ==
    (mpc = "none" /\ Len(results) = 2) =>
        /\ results[1].final_compromised = results[2].final_compromised
        /\ Range(results[1].last_step.new_compromised)
              = Range(results[2].last_step.new_compromised)
        /\ Range(results[1].last_step.propagation_paths)
              = Range(results[2].last_step.propagation_paths)

\* C3: run_simulation never returns while the last wave compromised new
\* nodes and neither the wave cap nor the time cap is reached.
C3_RunsUntilQuiescent ==
    \A i \in DOMAIN results :
        \/ results[i].last_step.new_compromised = << >>
        \/ results[i].cascade_depth >= max_simulation_steps
        \/ results[i].propagation_time >= max_simulation_time * 10000

\* What is left of a run of run_simulation: the passes the wave loop may
\* still make, and the work left in the current pass.
RunMeasure ==
    LET passes == max_simulation_steps - iterations
        width == Cardinality(gnodes) + MaxInit + 4
    IN  CASE pc = "loop" -> passes * width + width - 1
          [] pc = "iterate" -> passes * width + Len(order) + 2
          [] pc = "check" -> passes * width + 1
          [] pc = "except" -> passes * width
          [] OTHER -> 0

\* C4: run_simulation terminates on every graph, cyclic and complete ones
\* included: its wave loop makes at most max_simulation_steps passes, no node
\* that is already Compromised is given a propagation trial, and every step
\* of a run strictly decreases a measure that is never negative.
C4_Terminates ==
    /\ [](/\ iterations <= max_simulation_steps
          /\ RunMeasure >= 0
          /\ pc = "iterate" =>
                \A k \in DOMAIN loc.trials : loc.trials[k][2] \notin sim.compromised)
    /\ [][pc # "idle" => RunMeasure' < RunMeasure]_vars

\* A run on the complete graph, started from two adjacent compromised nodes,
\* has gone through its step and returned.
C4_Witness ==
    /\ gedges = AllEdges
    /\ Cardinality(Range(initial)) = 2
    /\ pc = "idle"
    /\ results # << >>
    /\ iterations = 1

\* C5: after simulate_mitigation_effectiveness has returned, the engine's
\* graph has the nodes, edges, risk scores and criticality scores it had
\* before the call.
C5_GraphUnchanged ==
    mpc = "returned" => GraphSnapshot = mit.before

\* C6: for every isolate_node or remove_edge candidate that
\* evaluate_mitigations evaluates, the re-simulation on the modified graph
\* finds no more propagation paths than the baseline simulation result has.
C6_ResimulationNeverMore ==
    \A i \in DOMAIN evals :
        evals[i].outcome.resim = "ok" =>
            evals[i].outcome.new_path_count <= Len(baseline.propagation_paths)

\* paths_reduced and risk_reduction of one evaluator result, against the
\* original path count it was given.
WellFormedReduction(o, original_path_count) ==
    /\ o.result.paths_reduced >= 0
    /\ o.result.risk_reduction.n >= 0
    /\ o.result.risk_reduction.n <= o.result.risk_reduction.d
    /\ o.resim = "ok" =>
          /\ o.result.paths_reduced = Max2(0, original_path_count - o.new_path_count)
          /\ IF original_path_count = 0
             THEN o.result.risk_reduction.n = 0
             ELSE o.result.risk_reduction.n * original_path_count
                      = o.result.paths_reduced * o.result.risk_reduction.d

\* C7: every result of evaluate_node_isolation and evaluate_edge_removal, and
\* every mitigation that evaluate_mitigations returns, has paths_reduced =
\* max(0, original_path_count - new_path_count) >= 0 and risk_reduction =
\* paths_reduced / original_path_count in [0,1], and risk_reduction = 0 when
\* original_path_count is 0.
C7_ReductionInRange ==
    /\ \A i \in DOMAIN evals :
          WellFormedReduction(evals[i].outcome, Len(baseline.propagation_paths))
    /\ tpc = "direct" =>
          WellFormedReduction(toutput.outcome, toutput.original_path_count)
    /\ tpc = "done" =>
          \A i \in DOMAIN toutput.ranked_mitigations :
              LET m == toutput.ranked_mitigations[i]
              IN  /\ m.affected_paths_reduced >= 0
                  /\ m.risk_reduction.n >= 0
                  /\ m.risk_reduction.n <= m.risk_reduction.d

\* An evaluator was called with no original path although the modified graph
\* still has paths: the subtraction is negative and the quotient undefined.
C7_Witness ==
    /\ tpc = "direct"
    /\ toutput.original_path_count = 0
    /\ toutput.outcome.resim = "ok"
    /\ toutput.outcome.new_path_count > 0
    /\ toutput.outcome.result.feasible

\* C8: on the MitigationInput of the pipeline, MitigationAgent.run returns a
\* MitigationOutput in which every action's risk_reduction (0.6 *
\* paths_reduced / baseline_paths + 0.4 * nodes_reduced / baseline_affected)
\* lies in [0,1]: no MitigationAction fails its range validation and run does
\* not raise.
C8_RiskReductionValidates ==
    /\ apc # "raised"
    /\ apc = "done" =>
          \A i \in DOMAIN aoutput.ranked_mitigations :
              ValidRiskReduction(aoutput.ranked_mitigations[i].risk_reduction)

ComplexityRank(c) == CASE c = "low" -> 1 [] c = "medium" -> 2 [] OTHER -> 3

\* a may stand before b in the ranking the specification describes.
RankedBefore(a, b) ==
    \/ FracGt(a.risk_reduction, b.risk_reduction)
    \/ /\ ~FracGt(b.risk_reduction, a.risk_reduction)
       /\ \/ a.affected_paths_reduced > b.affected_paths_reduced
          \/ /\ a.affected_paths_reduced = b.affected_paths_reduced
             /\ ComplexityRank(a.implementation_complexity)
                    <= ComplexityRank(b.implementation_complexity)

\* C9: the ranked mitigations are ordered by risk_reduction descending, then
\* by paths_reduced descending, then by implementation_complexity ascending
\* (low < medium < high).
C9_RankingOrder ==
    tpc = "done" =>
        \A i, j \in DOMAIN toutput.ranked_mitigations :
            i < j => RankedBefore(toutput.ranked_mitigations[i],
                                  toutput.ranked_mitigations[j])

IsActionFor(m, c) == m.action_type = c.kind /\ m.target = c.target

\* C10: when the re-simulation of a candidate raises, that candidate is
\* reported infeasible with risk_reduction 0 and paths_reduced 0 and is left
\* out of the ranking; every other candidate is still evaluated, the ones
\* with a positive reduction are ranked, and evaluate_mitigations does not raise.
C10_FailureIsolated ==
    /\ tpc # "raised"
    /\ \A i \in DOMAIN evals :
          evals[i].outcome.resim = "raised" =>
              /\ evals[i].outcome.result = Infeasible
              /\ \A k \in DOMAIN mitigations :
                    ~IsActionFor(mitigations[k], evals[i].cand)
    /\ tpc = "done" /\ baseline.propagation_paths # << >> =>
          LET all == NodeCandidates(baseline.propagation_paths)
                     \o EdgeCandidates(baseline.propagation_paths, max_mitigations)
          IN  /\ [i \in DOMAIN evals |-> evals[i].cand] = all
              /\ \A i \in DOMAIN evals :
                    LET o == evals[i].outcome
                    IN  (\E k \in DOMAIN toutput.ranked_mitigations :
                            IsActionFor(toutput.ranked_mitigations[k], evals[i].cand))
                        <=> (o.resim = "ok" /\ o.result.risk_reduction.n > 0)

\* evaluate_mitigations returned a ranking although the re-simulation of one
\* of its candidates raised.
C10_Witness ==
    /\ tpc = "done"
    /\ \E i \in DOMAIN evals : evals[i].outcome.resim = "raised"
    /\ \E i \in DOMAIN evals : evals[i].outcome.resim = "ok"
    /\ toutput.ranked_mitigations # << >>

\* The graph A->B, A->C, B->D, C->D with A = 1, B = 2, C = 3, D = 4, simulated
\* from A with depth 2 and mitigated by agents-v2.
OnDiamond ==
    /\ tin.graph.edges = {<<1, 2>>, <<1, 3>>, <<2, 4>>, <<3, 4>>}
    /\ tin.vendor_id = 1
    /\ tin.max_depth = 2
    /\ tin.version = "v2"

\* An evaluation of the isolation of B ended with fewer paths than the
\* baseline has and a positive risk_reduction.
StrictReduction(o) ==
    /\ o.resim = "ok"
    /\ o.new_path_count < Len(baseline.propagation_paths)
    /\ o.result.feasible
    /\ o.result.risk_reduction.n > 0

\* C11: on the graph A->B, A->C, B->D, C->D, simulating from A with depth 2
\* gives affected = {B, C, D}; evaluating the isolation of B against that
\* baseline re-simulates with strictly fewer paths and yields risk_reduction
\* > 0.
C11_DiamondIsolation ==
    OnDiamond /\ tpc \notin {"input", "enumerated"} =>
        /\ tpc # "rejected"
        /\ baseline.unique_affected_nodes = <<2, 3, 4>>
        /\ \A i \in DOMAIN evals :
              evals[i].cand.kind = "isolate_node" /\ evals[i].cand.target = 2 =>
                  StrictReduction(evals[i].outcome)
        /\ (/\ tpc = "direct"
            /\ toutput.kind = "isolate_node"
            /\ toutput.target = 2
            /\ toutput.original_path_count = Len(baseline.propagation_paths))
           => StrictReduction(toutput.outcome)

\* evaluate_mitigations has evaluated the isolation of B on that graph.
C11_Witness ==
    /\ OnDiamond
    /\ tpc = "done"
    /\ \E i \in DOMAIN evals :
          /\ evals[i].cand.kind = "isolate_node"
          /\ evals[i].cand.target = 2
          /\ evals[i].outcome.new_path_count = 2

\* The Secure out-neighbours of the Compromised nodes.
SecureNeighbours ==
    {e[2] : e \in {x \in gedges : x[1] \in sim.compromised /\ x[2] \in sim.secure}}

\* C12: at the end of every wave and in the result run_simulation builds,
\* every node of the affected set is Secure and adjacent to a Compromised
\* node, and total_affected = |compromised \cup secure neighbours of
\* compromised|, which never exceeds the number of graph nodes.
C12_AffectedAreSecureNeighbours ==
    pc \in {"check", "except"} =>
        /\ sim.affected \subseteq sim.secure
        /\ sim.affected \cap sim.compromised = {}
        /\ sim.affected \subseteq SecureNeighbours
        /\ FailedResult.total_affected
               = Cardinality(sim.compromised \cup SecureNeighbours)
        /\ FailedResult.total_affected <= Cardinality(gnodes)

\* C13: run_simulation called with an empty initial_compromised list on a
\* graph that has nodes returns with no recorded wave, an empty compromised
\* set, zero affected nodes and a status that is not failed.
C13_EmptyInitialCompletes ==
    (mpc = "none" /\ initial = << >> /\ gnodes # {}) =>
        \A i \in DOMAIN results :
            /\ results[i].status # "failed"
            /\ results[i].steps = << >>
            /\ results[i].final_compromised = {}
            /\ results[i].total_affected = 0

\* C14: for every initial_compromised list, lists that repeat a node id
\* included, the blast_radius of the result is >= 0 and is the number of
\* nodes compromised beyond the initial set.
C14_BlastRadius ==
    \A i \in DOMAIN results :
        /\ results[i].blast_radius >= 0
        /\ results[i].blast_radius
               = Cardinality(results[i].final_compromised
                             \ Range(results[i].initial_compromised))

(***************************************************************************)
(* Claims about the graph, the risk calculator and the predictor.          *)
(***************************************************************************)

\* C15: an add_edge call whose source or target is not a node of the graph is
\* rejected with a validation error and leaves the graph as it was.
C15_MissingEndpointRejected ==
    (rcall.op = "add_edge"
     /\ (rcall.arg[1] \notin rcall.before.nodes
         \/ rcall.arg[2] \notin rcall.before.nodes))
    => /\ rcall.out = "validation_error"
       /\ GraphState = rcall.before

\* C16: when one of the four centrality computations fails,
\* calculate_centrality_metrics replaces that metric alone by the node's degree
\* centrality, the other three keep their computed values, and every node of
\* the graph has an entry.
C16_OnlyFailedMetricReplaced ==
    (rcall.op = "centrality" /\ rcall.arg.raises # "none")
    => /\ DOMAIN rcall.out = gnodes
       /\ \A node \in gnodes :
             /\ rcall.out[node][rcall.arg.raises] = DegreeCentrality(node)
             /\ \A m \in Metrics \ {rcall.arg.raises} :
                   rcall.out[node][m] = rcall.arg.level

InUnitInterval(f) == f.n >= 0 /\ f.n <= f.d

\* C17: on every non-empty graph, graphs with fewer than V - 1 edges included,
\* the resilience_score of calculate_comprehensive_risk is in [0,1] and its
\* redundancy component is in [0,1].
C17_ResilienceInRange ==
    (rcall.op = "comprehensive" /\ gnodes # {})
    => /\ InUnitInterval(rcall.out.redundancy_score)
       /\ rcall.out.resilience_score >= 0
       /\ rcall.out.resilience_score <= 10000

UnscoredNodes(mode) == gnodes \ DOMAIN GnnAmplification(mode)

\* C19: with the predictor absent or raising, _calculate_propagation_parameters
\* returns the probability without the amplification factor, and
\* calculate_node_risk_profiles returns profiles in which every node the
\* predictor did not score has the descendants heuristic as its
\* cascade_amplification.
C19_PredictorOptional ==
    /\ (rcall.op = "parameters" /\ rcall.arg.gnn \in {"absent", "raises"})
        => LET p == PropagationParameters(rcall.arg.edge[1], rcall.arg.edge[2])
           IN  /\ ~rcall.out.raised
               /\ rcall.out.n = p.n /\ rcall.out.d = p.d
               /\ rcall.out.delay = p.delay
    /\ rcall.op \in {"profiles", "comprehensive"}
        => /\ ~rcall.out.raised
           /\ DOMAIN rcall.out.node_risks = gnodes
           /\ rcall.arg.predictor \in {"absent", "raises"}
                => UnscoredNodes(rcall.arg.predictor) = gnodes
           /\ \A n \in UnscoredNodes(rcall.arg.predictor) :
                 rcall.out.node_risks[n].cascade_amplification
                    = FallbackAmplification(n)

\* The predictor raises while the parameters of an edge are computed, and the
\* probability returned is below 1, so that a factor would have shown.
C19_Witness ==
    /\ rcall.op = "parameters"
    /\ rcall.arg.gnn = "raises"
    /\ rcall.out.n < rcall.out.d
    /\ ~rcall.out.raised

(***************************************************************************)
(* Claims about SimulationAgent and the paths it enumerates.               *)
(***************************************************************************)
RECURSIVE WithinHops(_, _, _)
\* The nodes at the end of a walk of 1..k edges of E that starts in S.
WithinHops(E, S, k) ==
    IF k = 0 THEN {}
    ELSE LET next == {e[2] : e \in {x \in E : x[1] \in S}}
         IN  next \cup WithinHops(E, next, k - 1)

\* C21: SimulationAgent.run reports as affected exactly the nodes within
\* max_depth hops of the source, and never the source itself.
C21_AffectedWithinDepth ==
    (apc # "input" /\ ain.vendor_id \in AgentGraph(ain.graph_data).nodes)
    => Range(simout.affected_node_ids)
         = WithinHops(ain.graph_data, {ain.vendor_id}, ain.max_depth) \ {ain.vendor_id}

IsEdgePath(q, E) == \A i \in 1..(Len(q) - 1) : <<q[i], q[i + 1]>> \in E

\* C29: every path SimulationAgent._enumerate_paths returns starts at the
\* source, follows edges of the graph, visits no node twice and has between 1
\* and max_depth edges (the result is a set here, so no path occurs twice).
C29_PathsAreSimple ==
    apc # "input"
    => \A q \in simout.propagation_paths :
          /\ q[1] = ain.vendor_id
          /\ IsEdgePath(q, ain.graph_data)
          /\ Cardinality(Range(q)) = Len(q)
          /\ Len(q) - 1 >= 1
          /\ Len(q) - 1 <= ain.max_depth


\* The local of OrchestratorAgent.run that holds the output of an agent.
OutputLocal(agent_name) ==
    CASE agent_name = "SimulationAgent" -> "simulation_output"
      [] agent_name = "ImpactReasoningAgent" -> "impact_output"
      [] OTHER -> "mitigation_output"

MissingSource == ain.vendor_id \notin AgentGraph(ain.graph_data).nodes

\* C22: when the source vendor is not a node of the graph, SimulationAgent.run
\* returns, without raising, an output with the same source_vendor_id, no
\* paths, no affected nodes and zero metrics, and the orchestrated pipeline
\* built on it goes on to its end: no step raises, every step before the end
\* can be taken, and the returned output holds the empty simulation results
\* and no mitigation.
C22_MissingSourceHandled ==
    (MissingSource /\ apc # "input")
    => /\ simout.source_vendor_id = ain.vendor_id
       /\ simout.propagation_paths = {}
       /\ simout.affected_node_ids = << >>
       /\ simout.metrics = [total_affected_nodes |-> 0, max_fan_out |-> 0,
                            average_path_length |-> 0]
       /\ apc \in {"simulated", "reasoned", "done"}
       /\ apc # "done" => ENABLED AgentNext
       /\ apc = "done" => /\ orch.returned
                          /\ orch.output.simulation_results = simout
                          /\ orch.output.mitigations.ranked_mitigations = << >>
                          /\ Len(orch.output.trace) = 3

C22_Witness ==
    /\ MissingSource
    /\ ain.graph_data # {}
    /\ apc = "done"
    /\ orch.returned

\* C24 as stated: every agent after the first is fed the output of the agent
\* that ran before it.
C24_FedPreviousOutput ==
    \A i \in 2..Len(orch.runs) : OutputLocal(orch.runs[i - 1]) \in orch.feeds[i]

\* C24: OrchestratorAgent.run calls SimulationAgent, ImpactReasoningAgent and
\* MitigationAgent in this order, each at most once and, when run returns,
\* each exactly once; ImpactReasoningAgent and MitigationAgent are both fed
\* the output of SimulationAgent (MitigationAgent reads nothing of the
\* output of ImpactReasoningAgent); the returned trace has exactly three
\* entries, in this order, numbered 1, 2, 3.
C24_ThreeAgentsInOrder ==
    LET agents == <<"SimulationAgent", "ImpactReasoningAgent", "MitigationAgent">>
    IN  /\ Len(orch.runs) <= 3
        /\ orch.runs = SubSeq(agents, 1, Len(orch.runs))
        /\ \A i \in 2..Len(orch.runs) : "simulation_output" \in orch.feeds[i]
        /\ Len(orch.runs) >= 2 => orch.impact_input = ImpactInput(simout)
        /\ Len(orch.runs) = 3 =>
              /\ orch.mitigation_input = MitigationInput(ain, simout)
              /\ "impact_output" \notin orch.feeds[3]
        /\ orch.returned =>
              /\ orch.runs = agents
              /\ orch.output.trace = [i \in 1..3 |-> [agent_name |-> agents[i],
                                                       execution_order |-> i]]

C24_Witness ==
    /\ apc = "done"
    /\ orch.returned
    /\ Len(orch.output.trace) = 3
    /\ Len(simout.affected_node_ids) > 0
    /\ orch.output.mitigations.ranked_mitigations # << >>


\* C25: when simulate_mitigation_effectiveness and run_simulation are called
\* concurrently on the same engine, every read of self.graph that the
\* run_simulation call makes finds the graph as it was when
\* simulate_mitigation_effectiveness was called, never the mitigated graph.
C25_ReadsOriginalGraph ==
    conc.pc \in {"running", "returned"}
    => \A i \in DOMAIN conc.reads : conc.reads[i] = mit.before

\* The agents whose run returned: those called, without the one that raised.
CompletedAgents ==
    IF pipe.raised = "none" THEN pipe.ran ELSE SubSeq(pipe.ran, 1, Len(pipe.ran) - 1)

\* C23: in OrchestratorAgent.run of v1 and agents-v2, once an agent has
\* raised no later agent is run and run returns (it does not raise) an output
\* with success = False, an error message that names the agent that failed,
\* an execution trace of exactly the agents that completed, in order, and
\* the outputs of the agents that completed before the failure.
C23_FailureStopsPipeline ==
    (pipe.pc # "off" /\ pipe.raised # "none")
    => /\ pipe.pc = "returned"
       /\ pipe.ran[Len(pipe.ran)] = pipe.raised
       /\ pipe.ran = SubSeq(PipeAgents, 1, Len(pipe.ran))
       /\ pipe.output.success = FALSE
       /\ pipe.output.error_message[1] = pipe.raised
       /\ pipe.output.execution_trace
             = [i \in 1..Len(CompletedAgents) |-> [agent_name |-> CompletedAgents[i]]]
       /\ Len(CompletedAgents) >= 1
             => /\ pipe.output.simulation_results = pipe.simulation_results
                /\ pipe.output.simulation_results # None
       /\ Len(CompletedAgents) >= 2
             => /\ pipe.output.impact_explanations = pipe.impact_explanations
                /\ pipe.output.impact_explanations # None

C23_Witness ==
    /\ pipe.pc = "returned"
    /\ pipe.raised = "MitigationAgent"
    /\ pipe.output.simulation_results # None
    /\ pipe.output.impact_explanations # None
    /\ Len(pipe.output.execution_trace) = 2

\* C26: for every baseline that simulate_propagation produced with a
\* max_depth of 1..10, the depth max(max_path_length + 1, 3) that
\* evaluate_mitigations re-simulates with is one simulate_propagation
\* accepts (1..10), so no candidate of agents-v2 is discarded because its
\* re-simulation was refused.
C26_ResimulationDepthAccepted ==
    (tpc \notin {"input", "enumerated"} /\ ~baseline.raised /\ tin.max_depth \in 1..10)
    => /\ ResimulationDepth(baseline) \in 1..10
       /\ tin.version = "v2"
             => \A i \in DOMAIN evals : evals[i].outcome.resim # "raised"

\* C27: after calculate_mitigation_impact has returned, with the computed
\* impact or with the fallback that follows a failure of the second risk
\* calculation, the risk_score stored for every node equals its value before
\* the call.
C27_RiskScoresRestored ==
    (rcall.op = "mitigation_impact" /\ ~rcall.out.raised)
    => nx_risk = rcall.out.risk_before

\* The number of recorded waves that list the node.
WavesListing(n) ==
    Cardinality({i \in DOMAIN casc.result.propagation_waves :
                    n \in Range(casc.result.propagation_waves[i].nodes)})

RECURSIVE NodesListed(_)
NodesListed(waves) ==
    IF waves = << >> THEN 0 ELSE Len(Head(waves).nodes) + NodesListed(Tail(waves))

\* C28: simulate_cascade_failure, called with a list of distinct graph
\* nodes, lists every node of compromised_nodes in exactly one recorded
\* wave, so total_affected is the number of nodes listed over all the waves,
\* whatever the length of the chains is against the limit of 10 waves.
C28_EveryCompromisedNodeInOneWave ==
    casc.pc = "returned"
    => /\ \A n \in casc.result.compromised_nodes : WavesListing(n) = 1
       /\ casc.result.total_affected = NodesListed(casc.result.propagation_waves)

\* C30: force_flush() without a batch_type flushes every batch and returns:
\* the thread that runs it is never waiting, in _flush_all_batches, for the
\* processor's lock while it holds this lock itself.
C30_ForceFlushNeverWaitsForOwnLock ==
    batch.pc = "on"
    => \A t \in BatchThreads :
          ~(batch.thread[t].at = "flush_all_acquire" /\ batch.lock = t)

(***************************************************************************)
(* Claims about enumerate_paths_tool.                                      *)
(***************************************************************************)
NoRepeatedNode(path) == Cardinality(Range(path)) = Len(path)

\* C20: enumerate_paths_tool returns on every finite graph, complete and
\* cyclic graphs included, with at most max_paths paths, after at most
\* 10 * max_paths queue iterations, and no path it returns (hence no path it
\* extended) holds a node twice.
C20_EnumerationBounded ==
    tpc = "enumerated" =>
        /\ ~toutput.raised
        /\ Len(toutput.paths) <= toutput.max_paths
        /\ toutput.iterations <= 10 * toutput.max_paths
        /\ \A i \in DOMAIN toutput.paths :
              /\ NoRepeatedNode(toutput.paths[i])
              /\ Len(toutput.paths[i]) - 1 <= toutput.max_depth

\* The call on a graph with a cycle through the source is cut off by
\* max_paths while the queue still holds entries.
C20_Witness ==
    /\ tpc = "enumerated"
    /\ <<1, 2>> \in tin.graph.edges /\ <<2, 1>> \in tin.graph.edges
    /\ tin.vendor_id = 1
    /\ toutput.max_depth = MaxBaselineDepth
    /\ Len(toutput.paths) = toutput.max_paths
    /\ toutput.max_paths = 2


====
